---- MODULE Spec2Model ----
(***************************************************************************)
(* MangaRecon: the recommendation engine (seed resolution, metadata        *)
(* profile, candidate selection, scoring), the generator that composes     *)
(* them, the read-through Redis cache around the collection path and the   *)
(* cache invalidation done by the collection and rating services.          *)
(*                                                                         *)
(* Numbers: external_average_rating is Numeric(2,1) and is kept in tenths  *)
(* (8.0 is 80); scores are kept in hundredths (1.25 is 125).               *)
(***************************************************************************)
EXTENDS Integers, Sequences, FiniteSets, TLC

\* ------------------------------------------------------------------ bounds
NumUsers == 2
NumCollections == 2
NumManga == 4
NumProcs == 2
\* Requests started in one behaviour.
MaxRequests == 3
\* Length of the id list posted to /recommendations/query-list.
MaxListLen == 3
\* backend.config.limits.MAX_RECOMMENDATION_SEEDS, scaled down so that a
\* collection of NumManga manga is truncated.
MAX_RECOMMENDATION_SEEDS == 2

\* --------------------------------------------------------------- constants
max_candidates == 2000

Users == 1 .. NumUsers
Cids == 1 .. NumCollections
MangaIds == 1 .. NumManga
Procs == 1 .. NumProcs
GenreIds == {1, 2}
TagIds == {1}
DemoIds == {1}
AuthorIds == {1, 2}
Names == {"a", "b"}

\* SQL NULL in an integer column, and the absent row of a table.
NULL == -1
NoUser == 0

VARIABLES
    collection,         \* table collection: collection_id -> row (user_id = NoUser: no row)
    manga_collection,   \* table manga_collection: set of <<collection_id, manga_id>>
    rating,             \* table rating: set of <<user_id, manga_id>>
    manga,              \* table manga: manga_id -> row
    manga_genre,        \* join tables: sets of <<manga_id, attribute_id>>
    manga_tag,
    manga_demographic,
    manga_author,
    redis,              \* the Redis keyspace: <<user_id, collection_id>> -> entry
    stale,              \* history: keys whose entry was computed before the last
                        \* committed change of their collection
    env,                \* what the environment may do: fault injection, concurrency
    started,            \* number of requests started so far
    req                 \* one record per request slot

vars == <<collection, manga_collection, rating, manga, manga_genre, manga_tag,
          manga_demographic, manga_author, redis, stale, env, started, req>>

catalog == <<manga, manga_genre, manga_tag, manga_demographic, manga_author>>
tables == <<collection, manga_collection, rating>>

\* ------------------------------------------------------- sequence helpers
Range(s) == {s[i] : i \in DOMAIN s}

Min(a, b) == IF a < b THEN a ELSE b

Max(a, b) == IF a > b THEN a ELSE b

Abs(a) == IF a < 0 THEN -a ELSE a

Prefix(s, n) == SubSeq(s, 1, Min(n, Len(s)))

\* All orders in which the rows of an unordered query can come back.
Perms(S) == {s \in [1 .. Cardinality(S) -> S] : Range(s) = S}

RECURSIVE SetToSeq(_)
SetToSeq(S) ==
    IF S = {} THEN <<>>
    ELSE LET m == CHOOSE x \in S : \A y \in S : x <= y
         IN <<m>> \o SetToSeq(S \ {m})

RECURSIVE SumSeq(_)
SumSeq(s) == IF s = <<>> THEN 0 ELSE Head(s) + SumSeq(Tail(s))

\* ------------------------------------------------- the manga catalogue
\* The catalogue tables are read-only to every modelled handler.  Two
\* catalogues are enumerated; they differ in which manga carry an external
\* rating and a tag.
title_of(m) == NumManga + 1 - m

MangaRowsA ==
    [m \in MangaIds |->
        [title |-> title_of(m),
         external_average_rating |->
            CASE m = 1 -> NULL [] m = 2 -> 20 [] m = 3 -> 80 [] m = 4 -> 90 [] OTHER -> NULL,
         published_date |->
            CASE m = 1 -> 2000 [] m = 3 -> 2004 [] m = 4 -> 2020 [] OTHER -> NULL]]

MangaRowsB ==
    [m \in MangaIds |->
        [title |-> title_of(m),
         external_average_rating |->
            CASE m = 1 -> 75 [] m = 2 -> NULL [] m = 3 -> 0 [] m = 4 -> 75 [] OTHER -> 30,
         published_date |->
            CASE m = 1 -> 2001 [] m = 2 -> 2002 [] m = 4 -> 2002 [] OTHER -> NULL]]

Catalogues ==
    { [manga |-> MangaRowsA,
       manga_genre |-> {<<1, 1>>, <<2, 1>>, <<3, 1>>, <<3, 2>>, <<4, 2>>},
       manga_tag |-> {<<2, 1>>, <<4, 1>>},
       manga_demographic |-> {<<1, 1>>, <<3, 1>>},
       manga_author |-> {<<1, 1>>, <<3, 1>>, <<2, 2>>, <<4, 2>>}],
      [manga |-> MangaRowsB,
       manga_genre |-> {<<1, 1>>, <<3, 1>>, <<4, 1>>},
       manga_tag |-> {},
       manga_demographic |-> {<<3, 1>>, <<4, 1>>},
       manga_author |-> {<<1, 1>>, <<2, 1>>, <<3, 2>>, <<4, 1>>}] }

\* A third catalogue for the scorer: manga 1 has no attribute, no rating and
\* no date; manga 2 and 3 are alike (equal scores) and have two authors;
\* manga 4 is rated 9.9, far from them.
MangaRowsC ==
    [m \in MangaIds |->
        [title |-> title_of(m),
         external_average_rating |->
            CASE m = 1 -> NULL [] m = 2 -> 45 [] m = 3 -> 45 [] m = 4 -> 99 [] OTHER -> 45,
         published_date |->
            CASE m = 1 -> NULL [] m = 2 -> 2010 [] m = 3 -> 2010 [] m = 4 -> 1999
                 [] OTHER -> 2011]]

ScoreCatalogues ==
    Catalogues \cup
    { [manga |-> MangaRowsC,
       manga_genre |-> {<<2, 1>>, <<2, 2>>, <<3, 1>>, <<3, 2>>, <<4, 2>>},
       manga_tag |-> {<<2, 1>>, <<3, 1>>},
       manga_demographic |-> {<<2, 1>>, <<3, 1>>, <<4, 1>>},
       manga_author |-> {<<1, 2>>, <<2, 1>>, <<2, 2>>, <<3, 1>>, <<3, 2>>, <<4, 1>>}] }

\* Fault seeded for C28: a key without the user.
build_recommendations_cache_key_without_user(user_id, collection_id) ==
    <<1, collection_id>>

\* ------------------------------------------------------------ Redis keys
\* build_recommendations_cache_key: f"recommendations:{user_id}:{collection_id}"
build_recommendations_cache_key(user_id, collection_id) == <<user_id, collection_id>>

Keys == Users \X Cids

NoEntry == [present |-> FALSE, payload |-> [json |-> <<>>]]

\* json.dumps(value, default=str): a Decimal is written as a string, every
\* other field of an item is written as it is.
JsonDumpsItem(item) ==
    [item EXCEPT !.external_average_rating =
        [type |-> "str", tenths |-> item.external_average_rating.tenths]]

\* The payload is the JSON text of the list.
JsonDumps(value) == [json |-> [i \in DOMAIN value |-> JsonDumpsItem(value[i])]]

\* json.loads(raw): the list the text denotes; strings stay strings.
JsonLoads(raw) == raw.json

\* ------------------------------------------------ recommendation/core.py
\* Results of a call: [err |-> "" , value |-> v] on return, err names the
\* exception otherwise.
Ok(v) == [err |-> "", value |-> v]

Raise(e) == [err |-> e, value |-> <<>>]

\* get_manga_ids_in_user_collection.  owned and members are what the two
\* SELECTs see, order is the iteration order of the Python set built from the
\* rows, db_ok is FALSE when a SELECT raises SQLAlchemyError (caught: []).
get_manga_ids_in_user_collection(owned, order, db_ok) ==
    IF ~db_ok THEN <<>>
    ELSE IF ~owned THEN <<>>
    ELSE order

\* Fault seeded for C17: presence instead of frequency.
CounterOf_boolean_presence(join_table, manga_ids) ==
    LET ids == Range(manga_ids)
        present == {r[2] : r \in {x \in join_table : x[1] \in ids}}
    IN [a \in present |-> 1]

\* collections.Counter over the attribute ids of the rows whose manga_id is
\* IN manga_ids: attribute id -> number of rows.
CounterOf(join_table, manga_ids) ==
    LET ids == Range(manga_ids)
        present == {r[2] : r \in {x \in join_table : x[1] \in ids}}
    IN [a \in present |-> Cardinality({x \in join_table : x[1] \in ids /\ x[2] = a})]

\* The non-NULL values of one column of the manga rows IN manga_ids.
ColumnValues(rows, manga_ids, column) ==
    LET ids == {m \in Range(manga_ids) : rows[m][column] # NULL}
        seq == SetToSeq(ids)
    IN [i \in DOMAIN seq |-> rows[seq[i]][column]]

\* The dictionary returned by the except branch: it has no "years" key.
FallbackProfile ==
    [genres |-> <<>>, tags |-> <<>>, demographics |-> <<>>,
     authors |-> {}, external_ratings |-> <<>>]

get_metadata_profile_for_collection(manga_ids, cat, db_ok) ==
    IF ~db_ok THEN FallbackProfile
    ELSE [genres |-> CounterOf(cat.manga_genre, manga_ids),
          tags |-> CounterOf(cat.manga_tag, manga_ids),
          demographics |-> CounterOf(cat.manga_demographic, manga_ids),
          authors |-> {x[2] : x \in {y \in cat.manga_author : y[1] \in Range(manga_ids)}},
          external_ratings |-> ColumnValues(cat.manga, manga_ids, "external_average_rating"),
          years |-> ColumnValues(cat.manga, manga_ids, "published_date")]

\* The manga the WHERE clause of get_candidate_manga keeps.
Qualifying(excluded_ids, genre_ids, tag_ids, demo_ids, cat) ==
    {m \in DOMAIN cat.manga :
        /\ m \notin Range(excluded_ids)
        /\ \/ \E g \in genre_ids : <<m, g>> \in cat.manga_genre
           \/ \E t \in tag_ids : <<m, t>> \in cat.manga_tag
           \/ \E d \in demo_ids : <<m, d>> \in cat.manga_demographic
        /\ cat.manga[m].external_average_rating # NULL}

\* The row sets the statement may return: DISTINCT manga, LIMIT max_candidates.
CandidateSets(excluded_ids, genre_ids, tag_ids, demo_ids, cat) ==
    LET q == Qualifying(excluded_ids, genre_ids, tag_ids, demo_ids, cat)
    IN {S \in SUBSET q : Cardinality(S) = Min(Cardinality(q), max_candidates)}

\* get_candidate_manga: rows is one order of one of the CandidateSets; any
\* exception is caught and [] returned.
get_candidate_manga(rows, db_ok) == IF ~db_ok THEN <<>> ELSE rows

\* round(x / n) for x >= 0: Python 3 rounds a tie to the even integer.
RoundHalfEven(x, n) ==
    LET q == x \div n
        r == x % n
    IN IF 2 * r < n THEN q
       ELSE IF 2 * r > n THEN q + 1
       ELSE IF q % 2 = 0 THEN q ELSE q + 1

\* Fault seeded for C12: every attribute of the candidate counted once,
\* whatever the profile holds for it.
OverlapSum_counting_attributes(counter, join_table, manga_id) ==
    Cardinality({x[2] : x \in {y \in join_table : y[1] = manga_id}} \cap DOMAIN counter)

\* sum(profile[k] for the attribute ids of the candidate), missing key 0.
OverlapSum(counter, join_table, manga_id) ==
    LET mine == {x[2] : x \in {y \in join_table : y[1] = manga_id}}
        hit == SetToSeq(mine \cap DOMAIN counter)
    IN SumSeq([i \in DOMAIN hit |-> counter[hit[i]]])

\* 5 - abs(rating - avg_rating) is a positive Decimal: both operands are
\* truthy (not NULL, not 0) and the distance is below 5.  Tenths times len.
RatingTermPositive(r, external_ratings) ==
    LET n == Len(external_ratings)
        total == SumSeq(external_ratings)
    IN /\ r # NULL /\ r # 0
       /\ n > 0 /\ total # 0
       /\ 50 * n - Abs(r * n - total) > 0

\* Fault seeded for C14: the average year truncated instead of rounded.
YearTerm_truncating(y, years) ==
    LET avg_year == IF years = <<>> THEN NULL
                    ELSE SumSeq(years) \div Len(years)
    IN IF y # NULL /\ y # 0 /\ avg_year # NULL /\ avg_year # 0
       THEN Max(0, 500 - 50 * Abs(y - avg_year))
       ELSE 0

\* The year term in hundredths.
YearTerm(y, years) ==
    LET avg_year == IF years = <<>> THEN NULL
                    ELSE RoundHalfEven(SumSeq(years), Len(years))
    IN IF y # NULL /\ y # 0 /\ avg_year # NULL /\ avg_year # 0
       THEN Max(0, 500 - 50 * Abs(y - avg_year))
       ELSE 0

\* One pass of the scoring loop.  The attribute and year terms are int or
\* float; a positive rating term is a Decimal, and float + Decimal raises
\* TypeError, so type_error marks the candidates on which the sum fails.
ScoreOne(row_id, profile, cat) ==
    LET row == cat.manga[row_id]
        genre_score == 200 * OverlapSum(profile.genres, cat.manga_genre, row_id)
        tag_score == 300 * OverlapSum(profile.tags, cat.manga_tag, row_id)
        demo_score == 125 * OverlapSum(profile.demographics, cat.manga_demographic, row_id)
        author_score ==
            IF profile.authors \cap {x[2] : x \in {y \in cat.manga_author : y[1] = row_id}} # {}
            THEN 300 ELSE 0
        year_score == YearTerm(row.published_date, profile.years)
    IN [manga_id |-> row_id,
        title |-> row.title,
        external_average_rating |-> [type |-> "Decimal", tenths |-> row.external_average_rating],
        score |-> genre_score + tag_score + demo_score + author_score + year_score,
        details |-> [genre_score |-> genre_score, tag_score |-> tag_score,
                     demo_score |-> demo_score, author_score |-> author_score,
                     rating_score |-> 0, year_score |-> year_score],
        type_error |-> RatingTermPositive(row.external_average_rating, profile.external_ratings)]

\* Fault seeded for C11: sorted(...) without reverse=True.
RECURSIVE InsertByScore_ascending(_, _)
InsertByScore_ascending(sorted, item) ==
    IF sorted = <<>> THEN <<item>>
    ELSE IF Head(sorted).score <= item.score
         THEN <<Head(sorted)>> \o InsertByScore_ascending(Tail(sorted), item)
         ELSE <<item>> \o sorted

\* Fault seeded for C19: a sort whose order of equal scores depends on how
\* many calls the process has made.
RECURSIVE InsertByScore_unstable(_, _)
InsertByScore_unstable(sorted, item) ==
    IF sorted = <<>> THEN <<item>>
    ELSE IF \/ Head(sorted).score > item.score
            \/ /\ Head(sorted).score = item.score
               /\ \A p \in Procs : Len(req[p].calls) % 2 = 0
         THEN <<Head(sorted)>> \o InsertByScore_unstable(Tail(sorted), item)
         ELSE <<item>> \o sorted

\* sorted(scored, key=score, reverse=True): stable, equal scores keep their order.
RECURSIVE InsertByScore(_, _)
InsertByScore(sorted, item) ==
    IF sorted = <<>> THEN <<item>>
    ELSE IF Head(sorted).score >= item.score
         THEN <<Head(sorted)>> \o InsertByScore(Tail(sorted), item)
         ELSE <<item>> \o sorted

RECURSIVE SortedByScore(_)
SortedByScore(scored) ==
    IF scored = <<>> THEN <<>>
    ELSE InsertByScore(SortedByScore(SubSeq(scored, 1, Len(scored) - 1)), scored[Len(scored)])

Item(s) == [manga_id |-> s.manga_id, title |-> s.title,
            external_average_rating |-> s.external_average_rating,
            score |-> s.score, details |-> s.details]

\* Fault seeded for C15: candidates without a rating are skipped.
get_scored_recommendations_skipping_unrated(candidates, profile, cat, db_ok) ==
    LET rated == SelectSeq(candidates,
                           LAMBDA c : cat.manga[c].external_average_rating # NULL)
        scored == [i \in DOMAIN rated |-> ScoreOne(rated[i], profile, cat)]
    IN IF candidates = <<>> THEN Ok(<<>>)
       ELSE IF ~db_ok THEN Raise("SQLAlchemyError")
       ELSE IF "years" \notin DOMAIN profile THEN Raise("KeyError")
       ELSE IF \E i \in DOMAIN scored : scored[i].type_error THEN Raise("TypeError")
       ELSE Ok(SortedByScore([i \in DOMAIN scored |-> Item(scored[i])]))

\* get_scored_recommendations: the four metadata SELECTs are not guarded, a
\* failing one raises; the fallback profile has no "years" key.
get_scored_recommendations(candidates, profile, cat, db_ok) ==
    IF candidates = <<>> THEN Ok(<<>>)
    ELSE IF ~db_ok THEN Raise("SQLAlchemyError")
    ELSE IF "years" \notin DOMAIN profile THEN Raise("KeyError")
    ELSE LET scored == [i \in DOMAIN candidates |-> ScoreOne(candidates[i], profile, cat)]
         IN IF \E i \in DOMAIN scored : scored[i].type_error
            THEN Raise("TypeError")
            ELSE Ok(SortedByScore([i \in DOMAIN scored |-> Item(scored[i])]))

\* -------------------------------------- services/recommendation_service.py
\* _sort_items: sort on (key_func(item), title.casefold()), reversed for
\* "desc".  Titles are modelled by their rank in casefolded order.
SortKey(item, order_by) ==
    IF order_by = "score" THEN <<item.score, item.title>>
    ELSE IF order_by = "title" THEN <<item.title, item.title>>
    ELSE <<item.external_average_rating.tenths, item.title>>

KeyLess(a, b) == a[1] < b[1] \/ (a[1] = b[1] /\ a[2] < b[2])

\* list.sort is stable, also with reverse=True: item goes behind every
\* element that does not have to come after it.
RECURSIVE InsertByKey(_, _, _, _)
InsertByKey(sorted, item, order_by, order_dir) ==
    IF sorted = <<>> THEN <<item>>
    ELSE LET h == SortKey(Head(sorted), order_by)
             k == SortKey(item, order_by)
             item_first == IF order_dir = "desc" THEN KeyLess(h, k) ELSE KeyLess(k, h)
         IN IF item_first THEN <<item>> \o sorted
            ELSE <<Head(sorted)>> \o InsertByKey(Tail(sorted), item, order_by, order_dir)

RECURSIVE SortItems(_, _, _)
SortItems(items, order_by, order_dir) ==
    IF items = <<>> THEN <<>>
    ELSE InsertByKey(SortItems(SubSeq(items, 1, Len(items) - 1), order_by, order_dir),
                     items[Len(items)], order_by, order_dir)

\* Fault seeded for C24: a slice that takes one item too many.
Slice_one_more(items, offset, size) ==
    SubSeq(items, offset + 1, Min(offset + size + 1, Len(items)))

\* items[offset : offset + size]
Slice(items, offset, size) ==
    SubSeq(items, offset + 1, Min(offset + size, Len(items)))

NoData ==
    [total_results |-> 0, page |-> 0, size |-> 0, items |-> <<>>,
     seed_meta |-> FALSE, seed_total |-> 0, seed_used |-> 0, seed_truncated |-> FALSE]

\* The data dictionary both page functions build after the generator or the
\* cache gave them items; the seed_* keys are added only when known.
PageData(items, q, seed_meta, seed_total, seed_used, seed_truncated) ==
    LET sorted == SortItems(items, q.order_by, q.order_dir)
    IN [total_results |-> Len(sorted), page |-> q.page, size |-> q.size,
        items |-> Slice(sorted, (q.page - 1) * q.size, q.size),
        seed_meta |-> seed_meta,
        seed_total |-> IF seed_meta THEN seed_total ELSE 0,
        seed_used |-> IF seed_meta THEN seed_used ELSE 0,
        seed_truncated |-> IF seed_meta THEN seed_truncated ELSE FALSE]

\* The dictionary the generator returns.
Envelope(items, seed_total, seed_used, seed_truncated) ==
    [total_results |-> 0, page |-> 0, size |-> 0, items |-> items,
     seed_meta |-> TRUE, seed_total |-> seed_total, seed_used |-> seed_used,
     seed_truncated |-> seed_truncated]

\* Query parameters of the two endpoints (the defaults of the routes).
QueryParams == {[order_by |-> "score", order_dir |-> "desc", page |-> 1, size |-> 20]}

\* ------------------------------------------------------------- requests
NoOutcome == [status |-> "", data |-> NoData]

Idle ==
    [op |-> "idle", pc |-> "idle", user_id |-> NoUser, collection_id |-> 0,
     manga_id |-> 0, name |-> "", q |-> CHOOSE q \in QueryParams : TRUE,
     input_ids |-> <<>>,        \* the id list the caller passed
     resolved |-> <<>>,         \* the seed list before truncation
     manga_ids |-> <<>>,        \* the seed list the pipeline works on
     seed_total |-> 0, seed_truncated |-> FALSE,
     profile |-> FallbackProfile, profile_arg |-> <<>>,
     excluded_ids |-> <<>>, attr_ids |-> <<{}, {}, {}>>,
     candidates |-> <<>>, items |-> <<>>,
     held |-> FALSE,            \* the key held a value when the request read it
     cached |-> FALSE,          \* cached_items is not None
     keys |-> {},               \* keys computed by invalidate_user_recommendations
     outdated |-> FALSE,        \* the collection changed after its seeds were read
     stale_hit |-> FALSE,       \* the entry read was in stale
     db_failed |-> {},          \* functions in which a SQL statement failed
     redis_failed |-> {},       \* Redis commands that failed
     repeated |-> FALSE,        \* the scorer was called a second time
     second |-> Ok(<<>>),       \* what the second call of the scorer gave
     before |-> NoEntry,        \* what the key held when a direct set was made
     issued |-> {},             \* lookups of the profile builder that were issued
     calls |-> <<>>,            \* functions called, in call order
     cache_calls |-> <<>>,      \* calls made on the RedisCache, with arguments
     outcome |-> NoOutcome]

Done(r, status, data) == [r EXCEPT !.pc = "done", !.outcome = [status |-> status, data |-> data]]

Call(r, fn) == [r EXCEPT !.calls = Append(@, fn)]

CacheCall(r, fn, keys, value) ==
    [r EXCEPT !.cache_calls = Append(@, [fn |-> fn, keys |-> keys, value |-> value])]

DbCall(r, fn, db_ok) ==
    IF db_ok THEN Call(r, fn) ELSE [Call(r, fn) EXCEPT !.db_failed = @ \cup {fn}]

RedisCall(r, fn, keys, value, ok) ==
    IF ok THEN CacheCall(r, fn, keys, value)
    ELSE [CacheCall(r, fn, keys, value) EXCEPT !.redis_failed = @ \cup {fn}]

InFlight == {p \in Procs : req[p].pc # "idle"}

\* A new request may arrive; it takes the first free slot.
CanStart(p) ==
    /\ req[p].pc = "idle"
    /\ \A o \in Procs : o < p => req[o].pc # "idle"
    /\ started < MaxRequests
    /\ Cardinality(InFlight) < env.max_in_flight

\* Outcomes of a Redis command and of a SQL statement: TRUE is success.
RedisOutcomes == IF env.redis_faulty THEN {TRUE, FALSE} ELSE {TRUE}

DbOutcomes == IF env.db_faulty THEN {TRUE, FALSE} ELSE {TRUE}

Catalogue ==
    [manga |-> manga, manga_genre |-> manga_genre, manga_tag |-> manga_tag,
     manga_demographic |-> manga_demographic, manga_author |-> manga_author]

Owned(user_id, collection_id) ==
    /\ collection_id \in DOMAIN collection
    /\ collection[collection_id].user_id = user_id

Members(collection_id) == {x[2] : x \in {y \in manga_collection : y[1] = collection_id}}

\* ---------------------------------------------------------- cache/redis.py
\* What RedisCache.get returns: None, or the decoded value.
None == [is_none |-> TRUE, value |-> <<>>]

Some(v) == [is_none |-> FALSE, value |-> v]

\* Fault seeded for C4: a Redis error read as an empty list of items.
RedisCache_get_empty_on_error(store, key, ok) ==
    IF ~ok THEN Some(<<>>)
    ELSE IF ~store[key].present THEN None
    ELSE Some(JsonLoads(store[key].payload))

edisCache_set_dropped(store, key, value, ok) == store

\* RedisCache.get: a miss, a decoding error and a Redis error all give None.
RedisCache_get(store, key, ok) ==
    IF ~ok THEN None
    ELSE IF ~store[key].present THEN None
    ELSE Some(JsonLoads(store[key].payload))

\* RedisCache.set: SET key json.dumps(value); an error is logged and dropped.
RedisCache_set(store, key, value, ok) ==
    IF ok THEN [store EXCEPT ![key] = [present |-> TRUE, payload |-> JsonDumps(value)]]
    ELSE store

\* Fault seeded for C30: a delete that removes nothing.
RedisCache_delete_keeping(store, key, ok) == store

\* RedisCache.delete: DEL key; an error is logged and dropped.
RedisCache_delete(store, key, ok) ==
    IF ok THEN [store EXCEPT ![key] = NoEntry] ELSE store

\* RedisCache.delete_multiple: nothing without keys, else one DEL of them all.
RedisCache_delete_multiple(store, keys, ok) ==
    IF keys = {} THEN store
    ELSE IF ok THEN [k \in DOMAIN store |-> IF k \in keys THEN NoEntry ELSE store[k]]
    ELSE store

\* ----------------------------------------------- recommendation/generator.py
eedStep_truncating_at_limit(r, manga_ids, empty_status) ==
    IF manga_ids = <<>> THEN Done(r, empty_status, NoData)
    ELSE [r EXCEPT !.pc = "profile",
                   !.resolved = manga_ids,
                   !.seed_total = Len(manga_ids),
                   !.seed_truncated = Len(manga_ids) >= MAX_RECOMMENDATION_SEEDS,
                   !.manga_ids = IF Len(manga_ids) >= MAX_RECOMMENDATION_SEEDS
                                 THEN Prefix(manga_ids, MAX_RECOMMENDATION_SEEDS)
                                 ELSE manga_ids]

\* Fault seeded for C9: the generator without its check of an empty list.
SeedStep_without_empty_check(r, manga_ids, empty_status) ==
    [r EXCEPT !.pc = "profile",
              !.resolved = manga_ids,
              !.seed_total = Len(manga_ids),
              !.seed_truncated = Len(manga_ids) > MAX_RECOMMENDATION_SEEDS,
              !.manga_ids = IF Len(manga_ids) > MAX_RECOMMENDATION_SEEDS
                            THEN Prefix(manga_ids, MAX_RECOMMENDATION_SEEDS)
                            ELSE manga_ids]

\* The first lines of both generators, after the seed list is known: an
\* empty list is refused, a long one is cut to MAX_RECOMMENDATION_SEEDS.
SeedStep(r, manga_ids, empty_status) ==
    IF manga_ids = <<>> THEN Done(r, empty_status, NoData)
    ELSE [r EXCEPT !.pc = "profile",
                   !.resolved = manga_ids,
                   !.seed_total = Len(manga_ids),
                   !.seed_truncated = Len(manga_ids) > MAX_RECOMMENDATION_SEEDS,
                   !.manga_ids = IF Len(manga_ids) > MAX_RECOMMENDATION_SEEDS
                                 THEN Prefix(manga_ids, MAX_RECOMMENDATION_SEEDS)
                                 ELSE manga_ids]

\* generate_recommendations_for_collection, lines 33-43: resolve the seeds of
\* the collection, refuse an empty list, truncate.
GenerateCollectionSeeds(r, order, db_ok) ==
    SeedStep(DbCall(Call(r, "generate_recommendations_for_collection"),
                    "get_manga_ids_in_user_collection", db_ok),
             get_manga_ids_in_user_collection(Owned(r.user_id, r.collection_id), order, db_ok),
             "BadRequestError")

\* Fault seeded for C20: a list generator that looks its seeds up in the cache.
GenerateListSeeds_reading_cache(r, manga_ids) ==
    SeedStep(CacheCall(Call(r, "generate_recommendations_for_list"), "get", {}, <<>>),
             manga_ids, "BadRequestError")

\* generate_recommendations_for_list, lines 83-90.
GenerateListSeeds(r, manga_ids) ==
    SeedStep(Call(r, "generate_recommendations_for_list"), manga_ids, "BadRequestError")

\* Fault seeded for C7: a de-duplication that keeps the last occurrence.
RECURSIVE Dedupe_keeping_last(_, _)
Dedupe_keeping_last(manga_ids, seen) ==
    IF manga_ids = <<>> THEN <<>>
    ELSE IF Head(manga_ids) \in Range(Tail(manga_ids))
         THEN Dedupe_keeping_last(Tail(manga_ids), seen)
    ELSE <<Head(manga_ids)>> \o Dedupe_keeping_last(Tail(manga_ids), seen)

\* de-dupe while preserving order (get_recommendations_for_query_list_page).
RECURSIVE Dedupe(_, _)
Dedupe(manga_ids, seen) ==
    IF manga_ids = <<>> THEN <<>>
    ELSE IF Head(manga_ids) \in seen THEN Dedupe(Tail(manga_ids), seen)
    ELSE <<Head(manga_ids)>> \o Dedupe(Tail(manga_ids), seen \cup {Head(manga_ids)})

\* ------------------------------------------------------------------ Init
\* The catalogue is one of Catalogues.  Collection 1 is a collection of user
\* 1, the other collections may exist or not; a collection starts empty, with one manga or
\* with all of them.  Ratings start empty.  The Redis server is not part of
\* the process and outlives it: when the process starts, the key of a
\* collection of its owner holds nothing or a list stored earlier.
InitialMembers == {{}, {1}, MangaIds}

\* A list of two items as RedisCache.set stores it.
StoredItems ==
    [i \in 1 .. 2 |->
        [manga_id |-> i + 2, title |-> title_of(i + 2),
         external_average_rating |-> [type |-> "Decimal", tenths |-> 80],
         score |-> 300 * i,
         details |-> [genre_score |-> 0, tag_score |-> 300 * i, demo_score |-> 0,
                      author_score |-> 0, rating_score |-> 0, year_score |-> 0]]]

StoredEntry == [present |-> TRUE, payload |-> JsonDumps(StoredItems)]

Environments(redis_faulty, db_faulty, max_in_flight) ==
    [redis_faulty : redis_faulty, db_faulty : db_faulty, max_in_flight : max_in_flight]

InitTables(other_owners) ==
    /\ \E cat \in Catalogues :
        /\ manga = cat.manga
        /\ manga_genre = cat.manga_genre
        /\ manga_tag = cat.manga_tag
        /\ manga_demographic = cat.manga_demographic
        /\ manga_author = cat.manga_author
    /\ \E owner \in [Cids -> Users \cup {NoUser}] :
        /\ owner[1] = 1
        /\ \A c \in Cids \ {1} : owner[c] \in other_owners
        /\ collection = [c \in Cids |->
                            [user_id |-> owner[c],
                             collection_name |-> IF c % 2 = 1 THEN "a" ELSE "b"]]
        /\ \E members \in [Cids -> InitialMembers] :
            /\ \A c \in Cids : owner[c] = NoUser => members[c] = {}
            /\ manga_collection = {x \in Cids \X MangaIds : x[2] \in members[x[1]]}
    /\ rating = {}
    /\ \E held \in SUBSET {k \in Keys : collection[k[2]].user_id = k[1]} :
        redis = [k \in Keys |-> IF k \in held THEN StoredEntry ELSE NoEntry]
    /\ stale = {}
    /\ started = 0
    /\ req = [p \in Procs |-> Idle]

Init ==
    /\ InitTables(Users \cup {NoUser})
    /\ env \in Environments({FALSE}, {FALSE}, {1})

\* ------------------------------------ repositories/recommendation_repo.py
\* Fault seeded for C8: an ownership check that finds every collection.
assert_owned_collection_finding_all(owned, db_ok) ==
    IF ~db_ok THEN "SQLAlchemyError" ELSE ""

\* assert_owned_collection: the error it raises, "" when it returns.
assert_owned_collection(owned, db_ok) ==
    IF ~db_ok THEN "SQLAlchemyError"
    ELSE IF ~owned THEN "NotFoundError"
    ELSE ""

\* ------------------------------------- GET /recommendations/{collection_id}
\* get_recommendations_for_collection_page, line 46: the ownership check.
RecsCollectionStart(p, u, c, q) ==
    /\ CanStart(p)
    /\ \E db_ok \in DbOutcomes :
        LET r0 == [Idle EXCEPT !.op = "recs_collection", !.user_id = u,
                               !.collection_id = c, !.q = q]
            r1 == DbCall(r0, "assert_owned_collection", db_ok)
            err == assert_owned_collection(Owned(u, c), db_ok)
        IN req' = [req EXCEPT ![p] =
                    IF err # "" THEN Done(r1, err, NoData)
                    ELSE [r1 EXCEPT !.pc = "cache_get"]]
    /\ started' = started + 1
    /\ UNCHANGED <<tables, catalog, redis, stale, env>>

\* Lines 48-56 and, on a hit, 65-87: read the cache; a hit is sorted, paged
\* and returned.
RecsCacheGet(p) ==
    /\ req[p].pc = "cache_get"
    /\ \E ok \in RedisOutcomes :
        LET r == req[p]
            key == build_recommendations_cache_key(r.user_id, r.collection_id)
            cached_items == RedisCache_get(redis, key, ok)
            r1 == [RedisCall(Call(r, "cache_get_items"), "get", {key}, <<>>, ok)
                     EXCEPT !.held = redis[key].present,
                            !.cached = ~cached_items.is_none,
                            !.stale_hit = ~cached_items.is_none /\ key \in stale]
        IN req' = [req EXCEPT ![p] =
                    IF cached_items.is_none THEN [r1 EXCEPT !.pc = "seeds"]
                    ELSE Done([r1 EXCEPT !.items = cached_items.value], "success",
                              PageData(cached_items.value, r.q, FALSE, 0, 0, FALSE))]
    /\ UNCHANGED <<tables, catalog, redis, stale, env, started>>

\* Line 57, into the generator: seed resolution.
RecsGenerateSeeds(p) ==
    /\ req[p].pc = "seeds"
    /\ \E db_ok \in DbOutcomes, order \in Perms(Members(req[p].collection_id)) :
        req' = [req EXCEPT ![p] = GenerateCollectionSeeds(req[p], order, db_ok)]
    /\ UNCHANGED <<tables, catalog, redis, stale, env, started>>

\* The profile step of both generators.
GenProfile(p) ==
    /\ req[p].pc = "profile"
    /\ \E db_ok \in DbOutcomes :
        req' = [req EXCEPT ![p] =
                 [DbCall(req[p], "get_metadata_profile_for_collection", db_ok)
                    EXCEPT !.pc = "candidates",
                           !.profile_arg = req[p].manga_ids,
                           !.profile = get_metadata_profile_for_collection(
                                           req[p].manga_ids, Catalogue, db_ok)]]
    /\ UNCHANGED <<tables, catalog, redis, stale, env, started>>

\* Variant seeded for C27: the selector call gives an empty list instead of
\* raising, and the collection path stores it and returns the empty page.
GenCandidates_storing_empty(p) ==
    /\ req[p].pc = "candidates"
    /\ LET r == [req[p] EXCEPT !.excluded_ids = req[p].manga_ids]
           key == build_recommendations_cache_key(r.user_id, r.collection_id)
       IN IF r.op = "recs_collection"
          THEN /\ redis' = RedisCache_set(redis, key, <<>>, TRUE)
               /\ req' = [req EXCEPT ![p] =
                            Done(CacheCall(r, "set", {key}, <<>>), "success",
                                 PageData(<<>>, r.q, TRUE, r.seed_total,
                                          Len(r.manga_ids), r.seed_truncated))]
          ELSE /\ redis' = redis
               /\ req' = [req EXCEPT ![p] = Done(r, "TypeError", NoData)]
    /\ UNCHANGED <<tables, catalog, stale, env, started>>

\* The candidate step of both generators (generator.py:47-53 and 94-100).
\* The call passes the database as keyword db; get_candidate_manga names that
\* parameter session and takes no other keywords, so Python raises TypeError
\* when the call is made: the body of the selector does not run and the
\* generator ends with the error.  excluded_ids and attr_ids are the
\* arguments the call was made with.
GenCandidates(p) ==
    /\ req[p].pc = "candidates"
    /\ LET r == req[p]
           genre_ids == DOMAIN r.profile.genres
           tag_ids == DOMAIN r.profile.tags
           demo_ids == DOMAIN r.profile.demographics
       IN req' = [req EXCEPT ![p] =
                    Done([r EXCEPT !.excluded_ids = r.manga_ids,
                                   !.attr_ids = <<genre_ids, tag_ids, demo_ids>>],
                         "TypeError", NoData)]
    /\ UNCHANGED <<tables, catalog, redis, stale, env, started>>

\* get_candidate_manga called with its own parameter names: the body runs,
\* one statement is executed, any exception gives [].
SelectDirect(p, excluded_ids, genre_ids, tag_ids, demo_ids) ==
    /\ CanStart(p)
    /\ \E db_ok \in DbOutcomes,
          S \in CandidateSets(excluded_ids, genre_ids, tag_ids, demo_ids, Catalogue) :
        \E rows \in Perms(S) :
            LET r == DbCall([Idle EXCEPT !.op = "select_direct",
                                         !.excluded_ids = excluded_ids,
                                         !.attr_ids = <<genre_ids, tag_ids, demo_ids>>],
                            "get_candidate_manga", db_ok)
            IN req' = [req EXCEPT ![p] =
                        Done([r EXCEPT !.candidates = get_candidate_manga(rows, db_ok)],
                             "success", NoData)]
    /\ started' = started + 1
    /\ UNCHANGED <<tables, catalog, redis, stale, env>>

\* The scoring step of both generators, the return of the generator and, for
\* the list endpoint, lines 115-130 of get_recommendations_for_query_list_page.
GenScore(p) ==
    /\ req[p].pc = "score"
    /\ \E db_ok \in DbOutcomes :
        LET r == DbCall(req[p], "get_scored_recommendations", db_ok)
            scored == get_scored_recommendations(r.candidates, r.profile, Catalogue, db_ok)
            r1 == [r EXCEPT !.items = scored.value]
            seed_used == Len(r.manga_ids)
        IN req' = [req EXCEPT ![p] =
                    IF scored.err # "" THEN Done(r, scored.err, NoData)
                    ELSE IF r.op = "recs_collection" THEN [r1 EXCEPT !.pc = "cache_set"]
                    ELSE IF r.op = "recs_list"
                         THEN Done(r1, "success",
                                   PageData(scored.value, r.q, TRUE, r.seed_total,
                                            seed_used, r.seed_truncated))
                    ELSE Done(r1, "success",
                              Envelope(scored.value, r.seed_total, seed_used,
                                       r.seed_truncated))]
    /\ UNCHANGED <<tables, catalog, redis, stale, env, started>>

\* Lines 58-87 on a miss: store the items, sort, page and return.
RecsCacheSet(p) ==
    /\ req[p].pc = "cache_set"
    /\ \E ok \in RedisOutcomes :
        LET r == req[p]
            key == build_recommendations_cache_key(r.user_id, r.collection_id)
        IN /\ redis' = RedisCache_set(redis, key, r.items, ok)
           /\ stale' = IF ~ok THEN stale
                       ELSE IF r.outdated THEN stale \cup {key}
                       ELSE stale \ {key}
           /\ req' = [req EXCEPT ![p] =
                        Done(RedisCall(Call(r, "cache_set_items"), "set", {key}, r.items, ok),
                             "success",
                             PageData(r.items, r.q, TRUE, r.seed_total,
                                      Len(r.manga_ids), r.seed_truncated))]
    /\ UNCHANGED <<tables, catalog, env, started>>

\* RedisCache.set called by itself on the key of a collection and a list.
CacheSetDirect(p, key, value) ==
    /\ CanStart(p)
    /\ \E ok \in RedisOutcomes :
        /\ redis' = RedisCache_set(redis, key, value, ok)
        /\ req' = [req EXCEPT ![p] =
                     Done(RedisCall([Idle EXCEPT !.op = "cache_set_direct",
                                                 !.user_id = key[1],
                                                 !.collection_id = key[2],
                                                 !.held = redis[key].present,
                                                 !.before = redis[key],
                                                 !.items = value],
                                    "set", {key}, value, ok),
                          "success", NoData)]
    /\ started' = started + 1
    /\ UNCHANGED <<tables, catalog, stale, env>>

\* The response has been sent: the slot is free again.
Return(p) ==
    /\ req[p].pc = "done"
    /\ req' = [req EXCEPT ![p] = Idle]
    /\ UNCHANGED <<tables, catalog, redis, stale, env, started>>

\* The generator called by itself, on any user and collection.
GenerateForCollection(p, u, c) ==
    /\ CanStart(p)
    /\ \E db_ok \in DbOutcomes, order \in Perms(Members(c)) :
        req' = [req EXCEPT ![p] =
                 GenerateCollectionSeeds(
                     [Idle EXCEPT !.op = "generate_collection", !.user_id = u,
                                  !.collection_id = c],
                     order, db_ok)]
    /\ started' = started + 1
    /\ UNCHANGED <<tables, catalog, redis, stale, env>>

\* Id lists a caller can post or pass.
IdLists == UNION {[1 .. n -> MangaIds] : n \in 0 .. MaxListLen}

\* The generator called by itself on a list.
GenerateForList(p, ids) ==
    /\ CanStart(p)
    /\ req' = [req EXCEPT ![p] =
                 GenerateListSeeds([Idle EXCEPT !.op = "generate_list", !.input_ids = ids],
                                   ids)]
    /\ started' = started + 1
    /\ UNCHANGED <<tables, catalog, redis, stale, env>>

\* ------------------------------------------ POST /recommendations/query-list
\* get_recommendations_for_query_list_page, lines 103-114.
RecsListStart(p, ids, q) ==
    /\ CanStart(p)
    /\ LET r0 == Call([Idle EXCEPT !.op = "recs_list", !.input_ids = ids, !.q = q],
                      "get_recommendations_for_query_list_page")
       IN req' = [req EXCEPT ![p] =
                    IF ids = <<>> THEN Done(r0, "BadRequestError", NoData)
                    ELSE GenerateListSeeds(r0, Dedupe(ids, {}))]
    /\ started' = started + 1
    /\ UNCHANGED <<tables, catalog, redis, stale, env>>

\* ------------------------------------------- services/collection_service.py
Mutation(op, u, c, m, name) ==
    [Idle EXCEPT !.op = op, !.user_id = u, !.collection_id = c, !.manga_id = m,
                 !.name = name]

\* The requests that have read the seeds of collection c and not yet returned
\* work on what the collection was.
MarkOutdated(rq, c) ==
    [o \in Procs |->
        IF /\ rq[o].op = "recs_collection"
           /\ rq[o].collection_id = c
           /\ rq[o].pc \in {"profile", "candidates", "score", "cache_set"}
        THEN [rq[o] EXCEPT !.outdated = TRUE]
        ELSE rq[o]]

\* Fault seeded for C29: the invalidation follows whether the database part
\* failed or not.
Commit_then_invalidate_always(p, r, status) ==
    /\ req' = [req EXCEPT ![p] = [r EXCEPT !.pc = "invalidate"]]
    /\ stale' = stale

\* The end of the database part of a collection mutation: an error is
\* raised, or the transaction is committed and the invalidation follows.
Commit(p, r, status) ==
    LET key == build_recommendations_cache_key(r.user_id, r.collection_id)
    IN /\ req' = IF status # "" THEN [req EXCEPT ![p] = Done(r, status, NoData)]
                 ELSE [MarkOutdated(req, r.collection_id)
                         EXCEPT ![p] = [r EXCEPT !.pc = "invalidate"]]
       /\ stale' = IF status = "" /\ redis[key].present THEN stale \cup {key}
                   ELSE stale

\* add_manga_to_user_collection, line 242: ClientWriteDatabase.add_manga_to_collection.
AddMangaCommit(p, u, c, m) ==
    /\ CanStart(p)
    /\ \E db_ok \in DbOutcomes :
        LET r == Call(Mutation("add_manga", u, c, m, ""), "add_manga_to_collection")
            status == IF ~db_ok THEN "SQLAlchemyError"
                      ELSE IF ~Owned(u, c) THEN "NotFoundError"
                      ELSE IF <<c, m>> \in manga_collection THEN "ConflictError"
                      ELSE ""
        IN /\ Commit(p, r, status)
           /\ manga_collection' =
                IF status = "" THEN manga_collection \cup {<<c, m>>} ELSE manga_collection
    /\ started' = started + 1
    /\ UNCHANGED <<collection, rating, catalog, redis, env>>

\* remove_manga_from_user_collection, line 257.
RemoveMangaCommit(p, u, c, m) ==
    /\ CanStart(p)
    /\ \E db_ok \in DbOutcomes :
        LET r == Call(Mutation("remove_manga", u, c, m, ""), "remove_manga_from_collection")
            status == IF ~db_ok THEN "SQLAlchemyError"
                      ELSE IF ~Owned(u, c) THEN "NotFoundError"
                      ELSE IF <<c, m>> \notin manga_collection THEN "NotFoundError"
                      ELSE ""
        IN /\ Commit(p, r, status)
           /\ manga_collection' =
                IF status = "" THEN manga_collection \ {<<c, m>>} ELSE manga_collection
    /\ started' = started + 1
    /\ UNCHANGED <<collection, rating, catalog, redis, env>>

\* update_user_collection, lines 116-144: find the row, refuse a name another
\* collection of the user has, write the fields, commit.  name = "" is a
\* payload without collection_name (only the description changes).
UpdateCollectionCommit(p, u, c, name) ==
    /\ CanStart(p)
    /\ \E db_ok \in DbOutcomes :
        LET r == Call(Mutation("update_collection", u, c, 0, name), "update_user_collection")
            taken == \E d \in Cids : /\ name # ""
                                     /\ d # c
                                     /\ collection[d].user_id = u
                                     /\ collection[d].collection_name = name
            status == IF ~db_ok THEN "SQLAlchemyError"
                      ELSE IF ~Owned(u, c) THEN "NotFoundError"
                      ELSE IF taken THEN "ConflictError"
                      ELSE ""
        IN /\ Commit(p, r, status)
           /\ collection' =
                IF status = "" /\ name # ""
                THEN [collection EXCEPT ![c].collection_name = name]
                ELSE collection
    /\ started' = started + 1
    /\ UNCHANGED <<manga_collection, rating, catalog, redis, env>>

\* delete_user_collection, lines 168-180: find the row, delete it (its
\* manga_collection rows go with it, ON DELETE CASCADE), commit.
DeleteCollectionCommit(p, u, c) ==
    /\ CanStart(p)
    /\ \E db_ok \in DbOutcomes :
        LET r == Call(Mutation("delete_collection", u, c, 0, ""), "delete_user_collection")
            status == IF ~db_ok THEN "SQLAlchemyError"
                      ELSE IF ~Owned(u, c) THEN "NotFoundError"
                      ELSE ""
        IN /\ Commit(p, r, status)
           /\ collection' =
                IF status = "" THEN [collection EXCEPT ![c].user_id = NoUser]
                ELSE collection
           /\ manga_collection' =
                IF status = "" THEN {x \in manga_collection : x[1] # c}
                ELSE manga_collection
    /\ started' = started + 1
    /\ UNCHANGED <<rating, catalog, redis, env>>

\* Fault seeded for C2: the key built with its two arguments exchanged.
invalidate_collection_recommendations_swapped(store, user_id, collection_id, ok) ==
    IF <<collection_id, user_id>> \in DOMAIN store
    THEN RedisCache_delete(store, <<collection_id, user_id>>, ok)
    ELSE store

\* Fault seeded for C22: a collection invalidation that clears every key of
\* the user.
invalidate_collection_recommendations_user_wide(store, user_id, collection_id, ok) ==
    RedisCache_delete_multiple(store, {k \in DOMAIN store : k[1] = user_id}, ok)

\* cache/invalidation.py, invalidate_collection_recommendations: one delete
\* of the key of the collection.
invalidate_collection_recommendations(store, user_id, collection_id, ok) ==
    RedisCache_delete(store, build_recommendations_cache_key(user_id, collection_id), ok)

\* The last await of the four collection mutations, then their return.
InvalidateCollection(p) ==
    /\ req[p].pc = "invalidate"
    /\ \E ok \in RedisOutcomes :
        LET r == req[p]
            key == build_recommendations_cache_key(r.user_id, r.collection_id)
        IN /\ redis' = invalidate_collection_recommendations(
                            redis, r.user_id, r.collection_id, ok)
           /\ stale' = {k \in stale : redis'[k].present}
           /\ req' = [req EXCEPT ![p] =
                        Done([RedisCall(Call(r, "invalidate_collection_recommendations"),
                                        "delete", {key}, <<>>, ok)
                                EXCEPT !.held = redis[key].present],
                             "success", NoData)]
    /\ UNCHANGED <<tables, catalog, env, started>>

\* ----------------------------------------------- services/rating_service.py
\* create_or_update_rating, lines 29-34: ClientWriteDatabase.rate_manga.
RateMangaCommit(p, u, m) ==
    /\ CanStart(p)
    /\ \E db_ok \in DbOutcomes :
        LET r == Call(Mutation("create_or_update_rating", u, 0, m, ""), "rate_manga")
        IN /\ req' = [req EXCEPT ![p] =
                        IF ~db_ok THEN Done(r, "SQLAlchemyError", NoData)
                        ELSE [r EXCEPT !.pc = "inv_query"]]
           /\ rating' = IF db_ok THEN rating \cup {<<u, m>>} ELSE rating
    /\ started' = started + 1
    /\ UNCHANGED <<collection, manga_collection, catalog, redis, stale, env>>

\* update_existing_rating and delete_user_rating_for_manga, first lines:
\* get_user_rating_for_manga returns None when there is no row and when the
\* SELECT fails.
RatingCheck(p, op, u, m) ==
    /\ CanStart(p)
    /\ op \in {"update_existing_rating", "delete_user_rating_for_manga"}
    /\ \E db_ok \in DbOutcomes :
        LET r == Call(Mutation(op, u, 0, m, ""), "get_user_rating_for_manga")
            existing == db_ok /\ <<u, m>> \in rating
        IN req' = [req EXCEPT ![p] =
                    IF ~existing THEN Done(r, "NotFoundError", NoData)
                    ELSE IF op = "update_existing_rating" THEN [r EXCEPT !.pc = "upsert"]
                    ELSE [r EXCEPT !.pc = "delete_rating"]]
    /\ started' = started + 1
    /\ UNCHANGED <<tables, catalog, redis, stale, env>>

\* update_existing_rating, lines 57-62.
UpsertRating(p) ==
    /\ req[p].pc = "upsert"
    /\ \E db_ok \in DbOutcomes :
        LET r == Call(req[p], "rate_manga")
        IN /\ req' = [req EXCEPT ![p] =
                        IF ~db_ok THEN Done(r, "SQLAlchemyError", NoData)
                        ELSE [r EXCEPT !.pc = "inv_query"]]
           /\ rating' = IF db_ok THEN rating \cup {<<r.user_id, r.manga_id>>} ELSE rating
    /\ UNCHANGED <<collection, manga_collection, catalog, redis, stale, env, started>>

\* delete_user_rating_for_manga, line 84: ClientWriteDatabase.delete_rating.
DeleteRatingCommit(p) ==
    /\ req[p].pc = "delete_rating"
    /\ \E db_ok \in DbOutcomes :
        LET r == Call(req[p], "delete_rating")
            row == <<r.user_id, r.manga_id>>
            status == IF ~db_ok THEN "SQLAlchemyError"
                      ELSE IF row \notin rating THEN "NotFoundError"
                      ELSE ""
        IN /\ req' = [req EXCEPT ![p] =
                        IF status # "" THEN Done(r, status, NoData)
                        ELSE [r EXCEPT !.pc = "inv_query"]]
           /\ rating' = IF status = "" THEN rating \ {row} ELSE rating
    /\ UNCHANGED <<collection, manga_collection, catalog, redis, stale, env, started>>

\* Fault seeded for C3: only the key of the first collection of the user.
user_recommendation_keys_first_only(user_id) ==
    LET owned == {c \in Cids : Owned(user_id, c)}
    IN {build_recommendations_cache_key(user_id, cid) :
            cid \in {c \in owned : \A d \in owned : c <= d}}

\* invalidate_user_recommendations, lines 23-26: the keys of the collections
\* of the user.
user_recommendation_keys(user_id) ==
    {build_recommendations_cache_key(user_id, cid) :
        cid \in {c \in Cids : Owned(user_id, c)}}

\* invalidate_user_recommendations, lines 23-27: the keys of the collections
\* of the user; without keys the function returns.
InvalidateUserQuery(p) ==
    /\ req[p].pc = "inv_query"
    /\ \E db_ok \in DbOutcomes :
        LET r == DbCall(req[p], "invalidate_user_recommendations", db_ok)
            keys == user_recommendation_keys(r.user_id)
        IN req' = [req EXCEPT ![p] =
                    IF ~db_ok THEN Done(r, "SQLAlchemyError", NoData)
                    ELSE IF keys = {} THEN Done(r, "success", NoData)
                    ELSE [r EXCEPT !.pc = "inv_delete", !.keys = keys]]
    /\ UNCHANGED <<tables, catalog, redis, stale, env, started>>

\* invalidate_user_recommendations, lines 28-29: one delete_multiple.
InvalidateUserDelete(p) ==
    /\ req[p].pc = "inv_delete"
    /\ \E ok \in RedisOutcomes :
        LET r == req[p]
        IN /\ redis' = RedisCache_delete_multiple(redis, r.keys, ok)
           /\ stale' = {k \in stale : redis'[k].present}
           /\ req' = [req EXCEPT ![p] =
                        Done([RedisCall(r, "delete_multiple", r.keys, <<>>, ok)
                                EXCEPT !.held = \A k \in r.keys : redis[k].present],
                             "success", NoData)]
    /\ UNCHANGED <<tables, catalog, env, started>>

\* -------------------------------------- get_scored_recommendations, alone
\* Candidate lists: manga rows, each at most once.
CandidateLists == UNION {Perms(S) : S \in SUBSET MangaIds}

\* The scorer called on a candidate list and on the profile of a seed list.
ScoreDirect(p, seeds, cands) ==
    /\ CanStart(p)
    /\ req' = [req EXCEPT ![p] =
                 [Idle EXCEPT !.op = "score_direct", !.pc = "score",
                              !.input_ids = seeds, !.resolved = seeds, !.manga_ids = seeds,
                              !.seed_total = Len(seeds),
                              !.profile_arg = seeds,
                              !.profile = get_metadata_profile_for_collection(
                                              seeds, Catalogue, TRUE),
                              !.candidates = cands]]
    /\ started' = started + 1
    /\ UNCHANGED <<tables, catalog, redis, stale, env>>

\* A second call of the scorer with the arguments of the first.
ScoreAgain(p) ==
    /\ req[p].op = "score_direct"
    /\ req[p].pc = "done"
    /\ ~req[p].repeated
    /\ \E db_ok \in DbOutcomes :
        req' = [req EXCEPT ![p] =
                 [DbCall(req[p], "get_scored_recommendations", db_ok)
                    EXCEPT !.repeated = TRUE,
                           !.second = get_scored_recommendations(
                                          req[p].candidates, req[p].profile,
                                          Catalogue, db_ok)]]
    /\ UNCHANGED <<tables, catalog, redis, stale, env, started>>

\* ------------------------------------------------------------------ Next
\* The steps of GET /recommendations/{collection_id}.
RecsCollection(p) ==
    \/ \E u \in Users, c \in Cids, q \in QueryParams : RecsCollectionStart(p, u, c, q)
    \/ RecsCacheGet(p)
    \/ RecsGenerateSeeds(p)

\* The steps of the generator after seed resolution, and the end of a
\* request.  The generator ends in GenCandidates: GenScore is reached only
\* by a direct call of the scorer, and RecsCacheSet by no request.
Pipeline(p) ==
    \/ GenProfile(p)
    \/ GenCandidates(p)
    \/ Return(p)

\* The four mutations of a collection.
CollectionMutations(p) ==
    \/ \E u \in Users, c \in Cids, m \in MangaIds : AddMangaCommit(p, u, c, m)
    \/ \E u \in Users, c \in Cids, m \in MangaIds : RemoveMangaCommit(p, u, c, m)
    \/ \E u \in Users, c \in Cids, name \in Names \cup {""} :
            UpdateCollectionCommit(p, u, c, name)
    \/ \E u \in Users, c \in Cids : DeleteCollectionCommit(p, u, c)
    \/ InvalidateCollection(p)

\* The three mutations of a rating.
RatingMutations(p) ==
    \/ \E u \in Users, m \in MangaIds : RateMangaCommit(p, u, m)
    \/ \E op \in {"update_existing_rating", "delete_user_rating_for_manga"},
          u \in Users, m \in MangaIds : RatingCheck(p, op, u, m)
    \/ UpsertRating(p)
    \/ DeleteRatingCommit(p)
    \/ InvalidateUserQuery(p)
    \/ InvalidateUserDelete(p)

\* The generator called by itself, and the list endpoint.
Generators(p) ==
    \/ \E u \in Users, c \in Cids : GenerateForCollection(p, u, c)
    \/ \E ids \in IdLists : GenerateForList(p, ids)
    \/ \E ids \in IdLists, q \in QueryParams : RecsListStart(p, ids, q)

\* Collections and their recommendations, one request at a time, Redis and
\* the database working.
Next == \E p \in Procs : RecsCollection(p) \/ Pipeline(p) \/ CollectionMutations(p)

Spec == Init /\ [][Next]_vars

\* The same requests with Redis commands that may fail.
InitRedisFault ==
    /\ InitTables(Users \cup {NoUser})
    /\ env \in Environments({TRUE}, {FALSE}, {1})

NextRedisFault ==
    \/ Next
    \/ \E p \in Procs, c \in Cids :
        /\ collection[c].user_id # NoUser
        /\ CacheSetDirect(p, <<collection[c].user_id, c>>, <<StoredItems[1]>>)

SpecRedisFault == InitRedisFault /\ [][NextRedisFault]_vars

\* Ratings and the recommendations of collections.
NextRating == \E p \in Procs : RecsCollection(p) \/ Pipeline(p) \/ RatingMutations(p)

SpecRating == Init /\ [][NextRating]_vars

\* The read-only requests (both endpoints, and the generator called by
\* itself), with SQL statements that may fail.
\* Collection 1 is the only collection: the others do not exist.
InitDbFault ==
    /\ InitTables({NoUser})
    /\ env \in Environments({FALSE}, {TRUE}, {1})

NextGen == \E p \in Procs : RecsCollection(p) \/ Generators(p) \/ Pipeline(p)

SpecGen == InitDbFault /\ [][NextGen]_vars

\* The scorer called by itself, on every candidate list and on the profile
\* of every seed list, over the three catalogues.
InitScore ==
    /\ \E cat \in ScoreCatalogues :
        /\ manga = cat.manga
        /\ manga_genre = cat.manga_genre
        /\ manga_tag = cat.manga_tag
        /\ manga_demographic = cat.manga_demographic
        /\ manga_author = cat.manga_author
    /\ collection = [c \in Cids |-> [user_id |-> NoUser, collection_name |-> "a"]]
    /\ manga_collection = {}
    /\ rating = {}
    /\ redis = [k \in Keys |-> NoEntry]
    /\ stale = {}
    /\ started = 0
    /\ req = [p \in Procs |-> Idle]
    /\ env \in Environments({FALSE}, {FALSE}, {1})

NextScore ==
    \E p \in Procs :
        \/ /\ CanStart(p)
           /\ \E seeds \in IdLists, cands \in CandidateLists : ScoreDirect(p, seeds, cands)
        \/ GenScore(p)
        \/ ScoreAgain(p)
        \/ Return(p)

SpecScore == InitScore /\ [][NextScore]_vars

\* The selector called by itself, on every exclusion list and every set of
\* genre, tag and demographic ids, over the three catalogues, with a
\* statement that may fail.
InitSelect ==
    /\ \E cat \in ScoreCatalogues :
        /\ manga = cat.manga
        /\ manga_genre = cat.manga_genre
        /\ manga_tag = cat.manga_tag
        /\ manga_demographic = cat.manga_demographic
        /\ manga_author = cat.manga_author
    /\ collection = [c \in Cids |-> [user_id |-> NoUser, collection_name |-> "a"]]
    /\ manga_collection = {}
    /\ rating = {}
    /\ redis = [k \in Keys |-> NoEntry]
    /\ stale = {}
    /\ started = 0
    /\ req = [p \in Procs |-> Idle]
    /\ env \in Environments({FALSE}, {TRUE}, {1})

NextSelect ==
    \E p \in Procs :
        \/ /\ CanStart(p)
           /\ \E excluded_ids \in IdLists, genre_ids \in SUBSET GenreIds,
                 tag_ids \in SUBSET TagIds, demo_ids \in SUBSET DemoIds :
                SelectDirect(p, excluded_ids, genre_ids, tag_ids, demo_ids)
        \/ Return(p)

SpecSelect == InitSelect /\ [][NextSelect]_vars

\* Requests on the one collection that exists, two at a time: a request may
\* arrive while another is between two of its awaits.
InitConcurrent ==
    /\ InitTables({NoUser})
    /\ env \in Environments({FALSE}, {FALSE}, {NumProcs})

SpecConcurrent == InitConcurrent /\ [][Next]_vars

\* ------------------------------ the lookups of the profile builder, alone
\* The keys of the profile, in the order the function fills them.
ProfileKeys == <<"genres", "tags", "demographics", "authors", "external_ratings", "years">>

\* The dictionary the function starts from (core.py:67-74).
EmptyProfile ==
    [genres |-> <<>>, tags |-> <<>>, demographics |-> <<>>,
     authors |-> {}, external_ratings |-> <<>>, years |-> <<>>]

\* Counter.update: the counts of b added to those of a.
CounterUpdate(a, b) ==
    [x \in DOMAIN a \cup DOMAIN b |->
        (IF x \in DOMAIN a THEN a[x] ELSE 0) + (IF x \in DOMAIN b THEN b[x] ELSE 0)]

\* The value one lookup gives its key, from the value the key had: the rows
\* of its SELECT added to the Counter, set or list (core.py:75-103).
LookupValue(key, old, manga_ids, cat) ==
    CASE key = "genres" -> CounterUpdate(old, CounterOf(cat.manga_genre, manga_ids))
      [] key = "tags" -> CounterUpdate(old, CounterOf(cat.manga_tag, manga_ids))
      [] key = "demographics" ->
           CounterUpdate(old, CounterOf(cat.manga_demographic, manga_ids))
      [] key = "authors" ->
           old \cup {x[2] : x \in {y \in cat.manga_author : y[1] \in Range(manga_ids)}}
      [] key = "external_ratings" ->
           old \o ColumnValues(cat.manga, manga_ids, "external_average_rating")
      [] key = "years" -> old \o ColumnValues(cat.manga, manga_ids, "published_date")

\* Fault seeded for C25: the genre lookup, the first of the code, starts from
\* a fresh dictionary.
Lookup_resetting(key, profile, manga_ids, cat) ==
    [(IF key = "genres" THEN EmptyProfile ELSE profile)
        EXCEPT ![key] = LookupValue(key, @, manga_ids, cat)]

\* One lookup of get_metadata_profile_for_collection: it writes its own key
\* of the profile and no other.
Lookup(key, profile, manga_ids, cat) ==
    [profile EXCEPT ![key] = LookupValue(key, @, manga_ids, cat)]

\* The seed lists the generators hand to the profile builder: the first
\* MAX_RECOMMENDATION_SEEDS ids of a non-empty list without repetition.
ProfileSeedLists ==
    {ids \in IdLists : /\ Len(ids) \in 1 .. MAX_RECOMMENDATION_SEEDS
                       /\ Cardinality(Range(ids)) = Len(ids)}

\* The profile builder is entered.
ProfileDirect(p, manga_ids) ==
    /\ CanStart(p)
    /\ req' = [req EXCEPT ![p] =
                 [Idle EXCEPT !.op = "profile_direct", !.pc = "lookups",
                              !.manga_ids = manga_ids, !.profile_arg = manga_ids,
                              !.profile = EmptyProfile]]
    /\ started' = started + 1
    /\ UNCHANGED <<tables, catalog, redis, stale, env>>

\* A lookup is issued, in any order.
LookupIssue(p, key) ==
    /\ req[p].op = "profile_direct"
    /\ req[p].pc = "lookups"
    /\ key \notin req[p].issued
    /\ req' = [req EXCEPT ![p].issued = @ \cup {key}]
    /\ UNCHANGED <<tables, catalog, redis, stale, env, started>>

\* An issued lookup completes and updates the profile; the function returns
\* the profile when the last one has completed.
LookupComplete(p, key) ==
    /\ req[p].op = "profile_direct"
    /\ req[p].pc = "lookups"
    /\ key \in req[p].issued
    /\ key \notin Range(req[p].calls)
    /\ LET r == [Call(req[p], key) EXCEPT
                     !.profile = Lookup(key, @, req[p].profile_arg, Catalogue)]
       IN req' = [req EXCEPT ![p] =
                    IF Range(r.calls) = Range(ProfileKeys)
                    THEN Done(r, "success", NoData)
                    ELSE r]
    /\ UNCHANGED <<tables, catalog, redis, stale, env, started>>

NextProfile ==
    \E p \in Procs :
        \/ /\ CanStart(p)
           /\ \E manga_ids \in ProfileSeedLists : ProfileDirect(p, manga_ids)
        \/ \E key \in Range(ProfileKeys) : LookupIssue(p, key) \/ LookupComplete(p, key)
        \/ Return(p)

SpecProfile == InitScore /\ [][NextProfile]_vars

\* Sorting and paging called by themselves (recommendation_service.py:66-76),
\* on every list of at most three of four items, two of which have the same
\* score and two of which have no title, for every order and page size.
PageItems ==
    [i \in 1 .. 4 |->
        [manga_id |-> i,
         title |-> CASE i = 1 -> 2 [] i = 2 -> 1 [] OTHER -> 0,
         external_average_rating |->
            [type |-> "str", tenths |-> CASE i = 1 -> 80 [] i = 2 -> 20 [] i = 3 -> 80
                                          [] OTHER -> 99],
         score |-> CASE i = 1 -> 20 [] i = 2 -> 90 [] i = 3 -> 90 [] OTHER -> 10,
         details |-> [genre_score |-> 0, tag_score |-> 0, demo_score |-> 0,
                      author_score |-> 0, rating_score |-> 0, year_score |-> 0]]]

PageLists ==
    UNION {{[i \in DOMAIN ids |-> PageItems[ids[i]]] : ids \in Perms(S)} :
              S \in {T \in SUBSET (1 .. 4) : Cardinality(T) <= MaxListLen}}

PageQueries ==
    [order_by : {"score", "title", "external_average_rating"},
     order_dir : {"asc", "desc"}, page : 1 .. (MaxListLen + 1), size : 1 .. MaxListLen]

PageDirect(p, items, q) ==
    /\ CanStart(p)
    /\ req' = [req EXCEPT ![p] =
                 Done([Idle EXCEPT !.op = "page_direct", !.q = q, !.items = items],
                      "success", PageData(items, q, FALSE, 0, 0, FALSE))]
    /\ started' = started + 1
    /\ UNCHANGED <<tables, catalog, redis, stale, env>>

NextPage ==
    \E p \in Procs :
        \/ /\ CanStart(p)
           /\ \E items \in PageLists, q \in PageQueries : PageDirect(p, items, q)
        \/ Return(p)

SpecPage == InitScore /\ [][NextPage]_vars

\* The two invalidations side by side: collection and rating mutations, one
\* request at a time, Redis and the database working.
NextInvalidate ==
    \E p \in Procs : CollectionMutations(p) \/ RatingMutations(p) \/ Return(p)

SpecInvalidate == Init /\ [][NextInvalidate]_vars

\* ============================================================ properties
\* A request that has returned.
Returned(r) == r.pc = "done"

Succeeded(r) == Returned(r) /\ r.outcome.status = "success"

Called(r, fn) == \E i \in DOMAIN r.calls : r.calls[i] = fn

CountCalls(r, fn) == Cardinality({i \in DOMAIN r.calls : r.calls[i] = fn})

CacheCalls(r, fn) == {i \in DOMAIN r.cache_calls : r.cache_calls[i].fn = fn}

\* The generator ran and returned its envelope.
GeneratorSucceeded(r) ==
    /\ r.pc \in {"cache_set", "done"}
    /\ Called(r, "get_scored_recommendations")
    /\ r.pc = "done" => r.outcome.status = "success"

ItemIds(items) == {items[i].manga_id : i \in DOMAIN items}

\* A generator call that got a seed list of at least one id and whose reads
\* all succeeded has returned or raised.
GeneratorEnded(r) ==
    /\ r.op \in {"generate_collection", "generate_list"}
    /\ Returned(r)
    /\ r.resolved # <<>>
    /\ r.db_failed = {}

C6_SeedMeta ==
    \A p \in Procs :
        LET r == req[p]
            n == Len(r.resolved)
            used == Min(n, MAX_RECOMMENDATION_SEEDS)
        IN /\ Called(r, "get_metadata_profile_for_collection")
                => /\ n >= 1
                   /\ r.profile_arg = Prefix(r.resolved, used)
                   /\ Returned(r) => r.excluded_ids = r.profile_arg
           /\ GeneratorEnded(r)
                => /\ Succeeded(r)
                   /\ r.outcome.data.seed_meta
                   /\ r.outcome.data.seed_total = n
                   /\ r.outcome.data.seed_used = used
                   /\ r.outcome.data.seed_truncated = (n > MAX_RECOMMENDATION_SEEDS)

\* The position of the first occurrence of x in seq.
FirstIndex(seq, x) ==
    CHOOSE i \in DOMAIN seq : seq[i] = x /\ \A j \in 1 .. (i - 1) : seq[j] # x

\* C7: on the list path the seed list handed to the generator is the input
\* without repetitions, in order of first occurrence: no id twice, exactly
\* the ids of the input, and a before b whenever a first occurs before b.
C7_DedupeOrder ==
    \A p \in Procs :
        LET r == req[p]
        IN (r.op = "recs_list" /\ Called(r, "generate_recommendations_for_list")) =>
            /\ Range(r.resolved) = Range(r.input_ids)
            /\ \A i, j \in DOMAIN r.resolved :
                 i < j => /\ r.resolved[i] # r.resolved[j]
                          /\ FirstIndex(r.input_ids, r.resolved[i])
                               < FirstIndex(r.input_ids, r.resolved[j])
            /\ r.seed_total = Cardinality(Range(r.input_ids))

C7_Witness ==
    \E p \in Procs :
        /\ req[p].op = "recs_list"
        /\ Called(req[p], "generate_recommendations_for_list")
        /\ Called(req[p], "get_metadata_profile_for_collection")
        /\ Len(req[p].input_ids) = 3
        /\ req[p].input_ids[1] = req[p].input_ids[3]
        /\ req[p].input_ids[1] > req[p].input_ids[2]
        /\ Len(req[p].resolved) = 2

PipelineFns ==
    {"get_metadata_profile_for_collection", "get_candidate_manga",
     "get_scored_recommendations"}

\* The generator was called on a collection of the user with no manga, or on
\* an empty list.
EmptySeedCall(r) ==
    \/ /\ Called(r, "generate_recommendations_for_collection")
       /\ Owned(r.user_id, r.collection_id)
       /\ Members(r.collection_id) = {}
    \/ /\ Called(r, "generate_recommendations_for_list")
       /\ r.input_ids = <<>>

C8_SeedsNotFound ==
    \A p \in Procs :
        (/\ Called(req[p], "get_manga_ids_in_user_collection")
         /\ req[p].db_failed = {}
         /\ ~Owned(req[p].user_id, req[p].collection_id))
            => /\ Returned(req[p])
               /\ req[p].outcome.status = "NotFoundError"

\* C8, amended: the not-found error of a collection that does not exist or
\* is not a collection of the user comes from the ownership check of the
\* request, which fails before the cache is read and before the generator is
\* called; seed resolution itself returns the empty list for such a
\* collection, and a generator called on it fails with a bad-request error
\* without calling the profile builder, the selector or the scorer.
C8_NotFoundAtOwnershipCheck ==
    \A p \in Procs :
        LET r == req[p]
        IN ~Owned(r.user_id, r.collection_id) =>
            /\ r.op = "recs_collection" =>
                /\ Returned(r)
                /\ r.calls = <<"assert_owned_collection">>
                /\ r.cache_calls = <<>>
                /\ r.db_failed = {} => r.outcome.status = "NotFoundError"
                /\ r.outcome.data = NoData
            /\ Called(r, "get_manga_ids_in_user_collection") =>
                /\ Returned(r)
                /\ r.resolved = <<>>
                /\ r.outcome = [status |-> "BadRequestError", data |-> NoData]
                /\ \A fn \in PipelineFns : ~Called(r, fn)

C8_Witness ==
    \E p \in Procs :
        /\ req[p].op = "recs_collection"
        /\ req[p].collection_id \in DOMAIN collection
        /\ collection[req[p].collection_id].user_id \in Users \ {req[p].user_id}
        /\ req[p].db_failed = {}
        /\ req[p].outcome.status = "NotFoundError"

\* C10 as stated: when a bulk read of seed resolution, of the profile
\* builder or of the candidate selector fails, the generator call fails with
\* that data-access error and returns no result.
C10_DataAccessErrorPropagates ==
    \A p \in Procs :
        LET r == req[p]
        IN (/\ Returned(r)
            /\ r.op \in {"generate_collection", "generate_list"}
            /\ r.db_failed \cap {"get_manga_ids_in_user_collection",
                                 "get_metadata_profile_for_collection",
                                 "get_candidate_manga"} # {})
            => r.outcome = [status |-> "SQLAlchemyError", data |-> NoData]

CollectionOps == {"add_manga", "remove_manga", "update_collection", "delete_collection"}

RatingOps ==
    {"create_or_update_rating", "update_existing_rating", "delete_user_rating_for_manga"}

KeyOf(r) == <<r.user_id, r.collection_id>>

\* The state part of C1.
C1_HitOrMiss ==
    \A p \in Procs :
        LET r == req[p]
        IN (r.op = "recs_collection" /\ Returned(r) /\ Called(r, "cache_get_items")) =>
            IF r.held
            THEN /\ r.cached
                 /\ ~Called(r, "generate_recommendations_for_collection")
                 /\ CacheCalls(r, "set") = {}
                 /\ Succeeded(r)
                 /\ r.items = JsonLoads(redis[KeyOf(r)].payload)
                 /\ ItemIds(r.outcome.data.items) = ItemIds(r.items)
            ELSE /\ ~r.cached
                 /\ CountCalls(r, "generate_recommendations_for_collection") = 1
                 /\ r.resolved # <<>> =>
                      /\ Succeeded(r)
                      /\ r.cache_calls =
                           <<[fn |-> "get", keys |-> {KeyOf(r)}, value |-> <<>>],
                             [fn |-> "set", keys |-> {KeyOf(r)}, value |-> r.items]>>
                      /\ redis[KeyOf(r)] = [present |-> TRUE, payload |-> JsonDumps(r.items)]
                      /\ ItemIds(r.outcome.data.items) = ItemIds(r.items)

\* The step part of C1: a stored list stays as it is in every step that is
\* not the cache delete of an invalidation.
C1_EntryStays ==
    \A k \in Keys :
        (/\ redis[k].present
         /\ ~\E p \in Procs : /\ req[p].pc \in {"invalidate", "inv_delete"}
                              /\ req'[p].pc = "done")
            => redis'[k] = redis[k]

\* C1 as stated: GET /recommendations/{collection_id} reads through the
\* cache.  When the key of (user, collection) holds a list, the request
\* returns it and calls neither the generator nor a cache set.  When it
\* holds nothing, the generator is called exactly once and its items list
\* (not its envelope) is stored under the key; the list stays there until an
\* invalidation, so the next request is served from the cache.
C1_ReadThrough == [](C1_HitOrMiss) /\ [][C1_EntryStays]_vars

\* C2: when add, remove, update or delete of collection c of user u has
\* succeeded, the key of (u, c) holds nothing; a list computed before the
\* change is in the cache only while the mutation is between its commit and
\* its invalidation, and no request is served such a list: the next request
\* for c calls the generator again.
C2_MutationInvalidates ==
    /\ \A p \in Procs :
        (req[p].op \in CollectionOps /\ Succeeded(req[p])) =>
            /\ ~redis[KeyOf(req[p])].present
            /\ req[p].cache_calls =
                 <<[fn |-> "delete", keys |-> {KeyOf(req[p])}, value |-> <<>>]>>
    /\ \A k \in stale :
        \E p \in Procs : /\ req[p].op \in CollectionOps
                         /\ req[p].pc = "invalidate"
                         /\ KeyOf(req[p]) = k
    /\ \A p \in Procs : ~req[p].stale_hit

C2_Witness ==
    \E p \in Procs :
        /\ req[p].op = "add_manga"
        /\ Succeeded(req[p])
        /\ req[p].held
        /\ ~redis[KeyOf(req[p])].present

\* C3: when a create, update or delete of a rating by user u has succeeded,
\* the keys of all collections of u hold nothing, and the request made one
\* delete_multiple with exactly those keys and no other cache call; when u
\* has no collection the request made no cache call.
C3_RatingInvalidates ==
    \A p \in Procs :
        LET r == req[p]
            keys == {<<r.user_id, c>> : c \in {d \in Cids : collection[d].user_id = r.user_id}}
        IN (r.op \in RatingOps /\ Succeeded(r)) =>
            IF keys = {} THEN r.cache_calls = <<>>
            ELSE /\ r.cache_calls =
                      <<[fn |-> "delete_multiple", keys |-> keys, value |-> <<>>]>>
                 /\ \A k \in keys : ~redis[k].present

C3_Witness ==
    \E p \in Procs :
        /\ req[p].op \in RatingOps
        /\ Succeeded(req[p])
        /\ Cardinality(req[p].keys) >= 2
        /\ req[p].held

\* What the miss path returns with a cache that works and holds nothing:
\* the bad-request error of an empty seed list, else the TypeError of the
\* generator's call of the selector.
MissOutcome(r) ==
    IF r.resolved = <<>> THEN [status |-> "BadRequestError", data |-> NoData]
    ELSE [status |-> "TypeError", data |-> NoData]

ScorerEnded(r) == r.op = "score_direct" /\ r.pc = "done"

\* The scorer returned a list.
ScorerReturned(r) == ScorerEnded(r) /\ r.outcome.status = "success"

\* C11: the list the scorer returns is in order of non-increasing score:
\* of two adjacent items the earlier has a score greater than or equal to
\* the score of the later.
C11_SortedByScore ==
    \A p \in Procs :
        ScorerReturned(req[p]) =>
            \A i \in 1 .. (Len(req[p].items) - 1) :
                req[p].items[i].score >= req[p].items[i + 1].score

C11_Witness ==
    \E p \in Procs :
        /\ ScorerReturned(req[p])
        /\ Len(req[p].items) >= 3
        /\ req[p].items[1].score > req[p].items[Len(req[p].items)].score
        /\ req[p].items[1].manga_id = req[p].candidates[Len(req[p].candidates)]

\* The attribute ids a manga has in a join table.
AttrsOf(join_table, m) == {x[2] : x \in {y \in join_table : y[1] = m}}

\* The count a profile mapping holds for an id, 0 for an id it does not hold.
CountIn(counter, a) == IF a \in DOMAIN counter THEN counter[a] ELSE 0

RECURSIVE SumCounts(_, _)
SumCounts(counter, ids) ==
    IF ids = {} THEN 0
    ELSE LET a == CHOOSE x \in ids : TRUE
         IN CountIn(counter, a) + SumCounts(counter, ids \ {a})

\* C12: in every item the scorer returns, score is the sum of the six terms
\* of details (to 2 decimals), genre_score is 2 times the sum of the
\* profile's counts over the genres of the candidate, tag_score 3 times and
\* demo_score 1.25 times the same sum over tags and demographics, an id the
\* profile does not hold counting 0, and author_score is 3 when the
\* candidate has an author of the profile, however many, and 0 otherwise.
C12_ScoreFormula ==
    \A p \in Procs :
        ScorerReturned(req[p]) =>
            \A i \in DOMAIN req[p].items :
                LET it == req[p].items[i]
                    d == it.details
                    prof == req[p].profile
                IN /\ it.score = d.genre_score + d.tag_score + d.demo_score
                                   + d.author_score + d.rating_score + d.year_score
                   /\ d.genre_score =
                        200 * SumCounts(prof.genres, AttrsOf(manga_genre, it.manga_id))
                   /\ d.tag_score =
                        300 * SumCounts(prof.tags, AttrsOf(manga_tag, it.manga_id))
                   /\ d.demo_score =
                        125 * SumCounts(prof.demographics,
                                        AttrsOf(manga_demographic, it.manga_id))
                   /\ d.author_score =
                        IF AttrsOf(manga_author, it.manga_id) \cap prof.authors = {}
                        THEN 0 ELSE 300

C12_Witness ==
    \E p \in Procs :
        /\ ScorerReturned(req[p])
        /\ \E i \in DOMAIN req[p].items :
            LET it == req[p].items[i]
            IN /\ Cardinality(AttrsOf(manga_author, it.manga_id) \cap req[p].profile.authors) >= 2
               /\ it.details.author_score = 300
               /\ AttrsOf(manga_genre, it.manga_id) \ DOMAIN req[p].profile.genres # {}
               /\ it.details.genre_score = 200
               /\ it.details.demo_score = 125

\* C13 as stated: for a candidate with rating r (not null) and a profile
\* whose external_ratings are not empty, with average a, the scorer returns
\* rating_score = max(0, 5 - |r - a|).  Ratings are in tenths and the term
\* in hundredths, both sides are multiplied by the number of ratings.
C13_RatingTerm ==
    \A p \in Procs :
        LET r == req[p]
            n == Len(r.profile.external_ratings)
            total == SumSeq(r.profile.external_ratings)
        IN (/\ ScorerEnded(r)
            /\ n > 0
            /\ \E i \in DOMAIN r.candidates : manga[r.candidates[i]].external_average_rating # NULL)
            => /\ ScorerReturned(r)
               /\ \A i \in DOMAIN r.items :
                    LET rt == manga[r.items[i].manga_id].external_average_rating
                    IN r.items[i].details.rating_score * n =
                         IF rt = NULL THEN 0
                         ELSE Max(0, 500 * n - 10 * Abs(rt * n - total))

\* The integers nearest to total / n.
NearestIntegers(total, n) ==
    {Y \in (total \div n) .. (total \div n + 1) : 2 * Abs(total - n * Y) <= n}

\* C14: in every item the scorer returns, year_score is max(0, 5 - 0.5 x
\* |y - Y|) for a candidate published in year y and a profile whose years
\* have the average Y, rounded to the nearest integer: 5 when y = Y, 0 when
\* |y - Y| >= 10; it is 0 when the candidate has no date or the profile no
\* years.
C14_YearTerm ==
    \A p \in Procs :
        ScorerReturned(req[p]) =>
            \A i \in DOMAIN req[p].items :
                LET y == manga[req[p].items[i].manga_id].published_date
                    years == req[p].profile.years
                    term == req[p].items[i].details.year_score
                IN IF y = NULL \/ years = <<>> THEN term = 0
                   ELSE \E Y \in NearestIntegers(SumSeq(years), Len(years)) :
                            /\ term = Max(0, 500 - 50 * Abs(y - Y))
                            /\ y = Y => term = 500
                            /\ Abs(y - Y) >= 10 => term = 0

C14_Witness ==
    \E p \in Procs :
        /\ ScorerReturned(req[p])
        /\ Len(req[p].profile.years) >= 2
        /\ SumSeq(req[p].profile.years) % Len(req[p].profile.years) # 0
        /\ \E i, k \in DOMAIN req[p].items :
            /\ req[p].items[i].details.year_score = 500
            /\ manga[req[p].items[k].manga_id].published_date = NULL

SelectorReturned(r) == Called(r, "get_candidate_manga")

QualifyingFor(r) ==
    Qualifying(r.excluded_ids, r.attr_ids[1], r.attr_ids[2], r.attr_ids[3], Catalogue)

\* C16: every manga the candidate selector returns is not a seed, has a rating
\* and shares a genre, tag or demographic id with the ids passed in; no id
\* comes twice; at most max_candidates come back; and when no more than
\* max_candidates manga qualify, all of them come back.
C16_CandidateSelection ==
    \A p \in Procs :
        LET r == req[p]
            ids == [i \in DOMAIN r.candidates |-> r.candidates[i]]
        IN SelectorReturned(r) =>
            /\ Range(ids) \subseteq QualifyingFor(r)
            /\ \A i, j \in DOMAIN ids : ids[i] = ids[j] => i = j
            /\ Len(ids) <= max_candidates
            /\ Cardinality(QualifyingFor(r)) <= max_candidates
                   => Range(ids) = QualifyingFor(r)


\* ------------------------------------------------------------ seed profile
\* The profile step of request r has run and its SELECTs did not fail.
ProfileBuilt(r) ==
    /\ Called(r, "get_metadata_profile_for_collection")
    /\ "get_metadata_profile_for_collection" \notin r.db_failed

\* The seed manga of list seeds that carry attribute a in join_table.
Carriers(join_table, seeds, a) == {m \in Range(seeds) : <<m, a>> \in join_table}

CountsAreFrequencies(r, counter, join_table, universe) ==
    /\ \A a \in DOMAIN counter :
        /\ counter[a] = Cardinality(Carriers(join_table, r.profile_arg, a))
        /\ counter[a] >= 1
    /\ \A a \in universe :
        Carriers(join_table, r.profile_arg, a) = {} => a \notin DOMAIN counter
    /\ ProfileBuilt(r) =>
        \A a \in universe :
            Carriers(join_table, r.profile_arg, a) # {} => a \in DOMAIN counter

\* C17: in the profile built for a seed list, the count stored for a genre,
\* tag or demographic id is the number of seed manga carrying it, hence at
\* least 1, and an id carried by no seed manga has no entry; when the reads
\* succeeded every id carried by a seed manga has an entry.
C17_ProfileCounts ==
    \A p \in Procs :
        LET r == req[p]
        IN Called(r, "get_metadata_profile_for_collection") =>
            /\ CountsAreFrequencies(r, r.profile.genres, manga_genre, GenreIds)
            /\ CountsAreFrequencies(r, r.profile.tags, manga_tag, TagIds)
            /\ CountsAreFrequencies(r, r.profile.demographics, manga_demographic, DemoIds)

\* A profile built from two seed manga in which one genre is counted twice,
\* one genre once and some tag id is absent.
C17_Witness ==
    \E p \in Procs :
        LET r == req[p]
        IN /\ ProfileBuilt(r)
           /\ Cardinality(Range(r.profile_arg)) = 2
           /\ \E g \in DOMAIN r.profile.genres : r.profile.genres[g] = 2
           /\ \E a \in DOMAIN r.profile.genres \cup DOMAIN r.profile.tags
                       \cup DOMAIN r.profile.demographics :
                 (IF a \in DOMAIN r.profile.genres THEN r.profile.genres[a] ELSE 0) = 1
                 \/ (IF a \in DOMAIN r.profile.tags THEN r.profile.tags[a] ELSE 0) = 1
                 \/ (IF a \in DOMAIN r.profile.demographics
                     THEN r.profile.demographics[a] ELSE 0) = 1
           /\ \E t \in TagIds : t \notin DOMAIN r.profile.tags


\* ------------------------------------------------------ seeds without attributes
\* No manga of the seed list of request r has a genre, a tag or a demographic.
NoSeedAttribute(r) ==
    \A m \in Range(r.manga_ids) :
        /\ \A g \in GenreIds : <<m, g>> \notin manga_genre
        /\ \A t \in TagIds : <<m, t>> \notin manga_tag
        /\ \A d \in DemoIds : <<m, d>> \notin manga_demographic

\* C18 as stated: when no seed manga carries a genre, a tag or a demographic,
\* the selector is given no attribute id and the generator returns, without
\* raising, items = [] with seed_total, seed_used and seed_truncated.
C18_EmptyProfile ==
    \A p \in Procs :
        LET r == req[p]
        IN (GeneratorEnded(r) /\ NoSeedAttribute(r)) =>
            /\ r.attr_ids = <<{}, {}, {}>>
            /\ Succeeded(r)
            /\ r.outcome.data.items = <<>>
            /\ r.outcome.data.seed_meta
            /\ r.outcome.data.seed_total = Len(r.resolved)
            /\ r.outcome.data.seed_used = Len(r.manga_ids)
            /\ r.outcome.data.seed_truncated = (Len(r.resolved) > MAX_RECOMMENDATION_SEEDS)

\* ------------------------------------------------------------ the list path
C20_NoCacheCall ==
    \A p \in Procs :
        LET r == req[p]
        IN r.op = "recs_list" =>
            /\ r.cache_calls = <<>>
            /\ r.redis_failed = {}
            /\ ~Called(r, "cache_get_items")
            /\ ~Called(r, "cache_set_items")
            /\ (Returned(r) /\ r.input_ids # <<>>) =>
                /\ CountCalls(r, "generate_recommendations_for_list") = 1
                /\ CountCalls(r, "get_metadata_profile_for_collection") = 1

C20_CacheUnchanged ==
    (\E p \in Procs : req'[p].op = "recs_list" /\ req'[p] # req[p]) => redis' = redis

\* C20: a request on the list path makes no call on the cache, no step of it
\* changes what the cache holds, and each request with at least one id calls
\* the generator, which starts the pipeline, whatever the cache holds.
C20_ListPathUncached == [](C20_NoCacheCall) /\ [][C20_CacheUnchanged]_vars

\* A list request has gone through the generator while the cache held a list.
C20_Witness ==
    \E p \in Procs :
        /\ req[p].op = "recs_list"
        /\ Returned(req[p])
        /\ Called(req[p], "get_metadata_profile_for_collection")
        /\ \E k \in Keys : redis[k].present


\* ------------------------------------------------------- the result's shape
\* C21 as stated: every successful result of a recommendation request, on
\* the collection path whether computed or read from the cache, and on the
\* list path, has seed_total, seed_used and seed_truncated next to its items.
C21_SeedMetaInEveryResult ==
    \A p \in Procs :
        LET r == req[p]
        IN (r.op \in {"recs_collection", "recs_list"} /\ Succeeded(r)) =>
            /\ r.outcome.data.seed_meta
            /\ r.outcome.data.seed_total >= 1
            /\ r.outcome.data.seed_used = Min(r.outcome.data.seed_total,
                                              MAX_RECOMMENDATION_SEEDS)
            /\ r.outcome.data.seed_truncated =
                 (r.outcome.data.seed_total > MAX_RECOMMENDATION_SEEDS)


\* ------------------------------------------------- what an invalidation touches
\* The keys whose entry a step changes.
ChangedKeys == {k \in Keys : redis'[k] # redis[k]}

C22_CollectionStep(p) ==
    (req[p].pc = "invalidate" /\ req'[p].pc = "done") =>
        /\ ChangedKeys \subseteq {KeyOf(req[p])}
        /\ ~redis'[KeyOf(req[p])].present
        /\ req'[p].cache_calls =
             <<[fn |-> "delete", keys |-> {KeyOf(req[p])}, value |-> <<>>]>>

C22_UserStep(p) ==
    LET owned == {<<req[p].user_id, c>> : c \in {d \in Cids : Owned(req[p].user_id, d)}}
    IN /\ (req[p].pc = "inv_delete" /\ req'[p].pc = "done") =>
            /\ ChangedKeys \subseteq owned
            /\ \A i \in DOMAIN req'[p].cache_calls :
                 /\ req'[p].cache_calls[i].fn = "delete_multiple"
                 /\ req'[p].cache_calls[i].keys \subseteq owned
       /\ (req[p].pc = "inv_query" /\ req'[p] # req[p]) =>
            /\ ChangedKeys = {}
            /\ req'[p].cache_calls = <<>>

\* C22: the invalidation of collection c of user u is one single-key delete
\* of the key of (u, c) and changes no other entry; the invalidation of user
\* u makes only multi-key deletes, of keys of collections of u, and changes
\* no entry of another user.
C22_InvalidationFrame ==
    [][\A p \in Procs : C22_CollectionStep(p) /\ C22_UserStep(p)]_vars

\* A collection invalidation has removed a held list while another
\* collection of the same user still has its list.
C22_Witness ==
    \E p \in Procs :
        /\ req[p].op \in CollectionOps
        /\ Succeeded(req[p])
        /\ req[p].held
        /\ \E k \in Keys : /\ k # KeyOf(req[p])
                           /\ k[1] = req[p].user_id
                           /\ redis[k].present


\* ------------------------------------------------------- the order of calls
\* The calls of a generator that runs its whole pipeline.
PipelineCalls(r) ==
    IF r.op = "generate_collection"
    THEN <<"generate_recommendations_for_collection", "get_manga_ids_in_user_collection",
           "get_metadata_profile_for_collection", "get_candidate_manga",
           "get_scored_recommendations">>
    ELSE <<"generate_recommendations_for_list", "get_metadata_profile_for_collection",
           "get_candidate_manga", "get_scored_recommendations">>

PageOf(r, i) == PageData(r.items, [r.q EXCEPT !.page = i], FALSE, 0, 0, FALSE).items

\* Pages 1 .. k one after the other.
RECURSIVE PagesUpTo(_, _)
PagesUpTo(r, k) == IF k = 0 THEN <<>> ELSE PagesUpTo(r, k - 1) \o PageOf(r, k)

\* a may stand before b in the requested direction.
InOrder(a, b, q) ==
    IF q.order_dir = "desc"
    THEN ~KeyLess(SortKey(a, q.order_by), SortKey(b, q.order_by))
    ELSE ~KeyLess(SortKey(b, q.order_by), SortKey(a, q.order_by))

\* C24: for a list of n items, an order and a page size, page i is the
\* slice (i-1)*size+1 .. i*size of one list that holds every item once and is
\* sorted by (order key, title) in the requested direction; a page has at
\* most size items, reports total_results = n, and is empty past the end.
C24_Pages ==
    \A p \in Procs :
        LET r == req[p]
            n == Len(r.items)
            size == r.q.size
            all == PagesUpTo(r, n + 1)
        IN (r.op = "page_direct" /\ Returned(r)) =>
            /\ Len(all) = n
            /\ Range(all) = Range(r.items)
            /\ \A i, j \in DOMAIN all : i < j => InOrder(all[i], all[j], r.q)
            /\ \A i \in 1 .. (n + 1) :
                 /\ Len(PageOf(r, i)) <= size
                 /\ PageOf(r, i) = SubSeq(all, (i - 1) * size + 1, Min(i * size, n))
                 /\ (i - 1) * size >= n => PageOf(r, i) = <<>>
            /\ r.outcome.data.items = PageOf(r, r.q.page)
            /\ r.outcome.data.total_results = n
            /\ r.outcome.data.page = r.q.page
            /\ r.outcome.data.size = size

\* The second page of three items, two to a page, highest score first, the
\* two equal scores on page 1.
C24_Witness ==
    \E p \in Procs :
        LET r == req[p]
        IN /\ r.op = "page_direct"
           /\ Returned(r)
           /\ Len(r.items) = 3
           /\ r.q = [order_by |-> "score", order_dir |-> "desc", page |-> 2, size |-> 2]
           /\ Len(r.outcome.data.items) = 1
           /\ PageOf(r, 1)[1].score = PageOf(r, 1)[2].score
           /\ r.items[1].score < r.items[2].score


\* ------------------------------------------------- order of the lookups
\* C25: whatever the order in which the six lookups of the profile builder
\* are issued and complete, a completed lookup has given its key the value
\* the function gives it, a lookup that has not completed has left its key
\* empty, and the returned profile is the one the function builds.
C25_LookupOrder ==
    \A p \in Procs :
        LET r == req[p]
            whole == get_metadata_profile_for_collection(r.profile_arg, Catalogue, TRUE)
        IN r.op = "profile_direct" =>
            /\ \A i \in DOMAIN ProfileKeys :
                 r.profile[ProfileKeys[i]] =
                    IF ProfileKeys[i] \in Range(r.calls)
                    THEN whole[ProfileKeys[i]]
                    ELSE EmptyProfile[ProfileKeys[i]]
            /\ Returned(r) => r.profile = whole

\* A profile returned after the lookups completed in the reverse of the
\* order of the code, with a genre counted twice and a year.
C25_Witness ==
    \E p \in Procs :
        LET r == req[p]
        IN /\ r.op = "profile_direct"
           /\ Returned(r)
           /\ r.calls = <<"years", "external_ratings", "authors", "demographics",
                          "tags", "genres">>
           /\ \E g \in DOMAIN r.profile.genres : r.profile.genres[g] = 2
           /\ r.profile.years # <<>>

\* A lookup completes while a lookup the code issues before it has not been
\* issued and another is in flight.
C25_WitnessInterleaved ==
    \E p \in Procs :
        LET r == req[p]
        IN /\ r.op = "profile_direct"
           /\ r.calls = <<"years">>
           /\ r.issued = {"years", "tags"}
           /\ r.profile.years # <<>>


\* ------------------------------------------- requests racing a mutation
\* A collection-path request that missed, read a membership of at least one
\* manga and ended after a successful add or remove on the same collection
\* had committed.
RacedRequest(r, m) ==
    /\ r.op = "recs_collection"
    /\ Returned(r)
    /\ Called(r, "cache_get_items")
    /\ ~r.cached
    /\ r.resolved # <<>>
    /\ r.outdated
    /\ m.op \in {"add_manga", "remove_manga"}
    /\ Succeeded(m)
    /\ KeyOf(m) = KeyOf(r)

C26_RacedRequestFails ==
    \A p, o \in Procs :
        RacedRequest(req[p], req[o]) =>
            /\ req[p].outcome.status = "TypeError"
            /\ CacheCalls(req[p], "set") = {}
            /\ ~redis[KeyOf(req[p])].present
            /\ stale = {}


\* ------------------------------------- failed fetches and the cache
\* A step that puts a list under a key is the set of a collection-path
\* request for that key none of whose fetches failed, and the list is the
\* items of that request.
C27_OnlyFromCompleteRuns ==
    \A k \in Keys :
        (redis'[k] # redis[k] /\ redis'[k].present) =>
            \E p \in Procs :
                /\ req'[p].op = "recs_collection"
                /\ KeyOf(req'[p]) = k
                /\ req'[p].db_failed = {}
                /\ CacheCalls(req'[p], "set") # {}
                /\ redis'[k].payload = JsonDumps(req'[p].items)

C28_OwnKeyOnly ==
    \A p \in Procs :
        LET r == req[p]
        IN r.op = "recs_collection" =>
            /\ ~Owned(r.user_id, r.collection_id) =>
                /\ r.cache_calls = <<>>
                /\ ~Called(r, "cache_get_items")
                /\ ~Called(r, "cache_set_items")
                /\ ~Called(r, "generate_recommendations_for_collection")
                /\ Returned(r)
                /\ r.outcome.data = NoData
            /\ \A i \in DOMAIN r.cache_calls :
                /\ r.cache_calls[i].keys = {<<r.user_id, r.collection_id>>}
                /\ Owned(r.user_id, r.collection_id)
                /\ r.calls[1] = "assert_owned_collection"
                /\ "assert_owned_collection" \notin r.db_failed
            /\ (Succeeded(r) /\ r.cached) =>
                /\ redis[<<r.user_id, r.collection_id>>].present
                /\ r.outcome.data =
                     PageData(JsonLoads(redis[<<r.user_id, r.collection_id>>].payload),
                              r.q, FALSE, 0, 0, FALSE)

\* A request for a collection of another user whose key holds a list: it
\* has ended at the ownership check.
C28_Witness ==
    \E p \in Procs :
        LET r == req[p]
        IN /\ r.op = "recs_collection"
           /\ Returned(r)
           /\ r.collection_id \in DOMAIN collection
           /\ collection[r.collection_id].user_id \in Users \ {r.user_id}
           /\ redis[<<collection[r.collection_id].user_id, r.collection_id>>].present
           /\ r.outcome.status = "NotFoundError"
           /\ r.cache_calls = <<>>

\* A hit of user 2 on a collection of user 2.
C28_WitnessHit ==
    \E p \in Procs :
        LET r == req[p]
        IN /\ r.op = "recs_collection"
           /\ r.user_id = 2
           /\ Succeeded(r)
           /\ r.cached
           /\ Len(r.outcome.data.items) > 0


\* ------------------------------------ mutations that fail, and the commit
\* The change a successful collection mutation makes is in the database.
Committed(r) ==
    CASE r.op = "add_manga" -> <<r.collection_id, r.manga_id>> \in manga_collection
      [] r.op = "remove_manga" -> <<r.collection_id, r.manga_id>> \notin manga_collection
      [] r.op = "update_collection" ->
           r.name # "" => collection[r.collection_id].collection_name = r.name
      [] r.op = "delete_collection" -> ~Owned(r.user_id, r.collection_id)
      [] OTHER -> FALSE

\* A step in which a collection mutation fails, or in which the database
\* changes, changes no cache entry; a step that changes a cache entry is the
\* invalidation of a mutation that has committed.
C29_Step ==
    /\ \A p \in Procs :
        (/\ req'[p] # req[p]
         /\ req'[p].op \in CollectionOps
         /\ Returned(req'[p])
         /\ ~Succeeded(req'[p])) => redis' = redis
    /\ tables' # tables => redis' = redis
    /\ redis' # redis =>
        \E p \in Procs : /\ req[p].op \in CollectionOps
                         /\ req[p].pc = "invalidate"
                         /\ Committed(req[p])
                         /\ Succeeded(req'[p])

\* C29: a collection mutation that fails (collection missing or not the
\* user's, manga already in the collection, manga not in it, name taken)
\* issues no cache delete and changes no cache entry; a successful one
\* deletes the key after its change is committed, never before.
C29_DeleteAfterCommit ==
    /\ [](\A p \in Procs :
            LET r == req[p]
            IN r.op \in CollectionOps =>
                /\ (Returned(r) /\ ~Succeeded(r)) =>
                     /\ r.cache_calls = <<>>
                     /\ ~Called(r, "invalidate_collection_recommendations")
                /\ r.cache_calls # <<>> =>
                     /\ Committed(r)
                     /\ Len(r.calls) = 2
                     /\ r.calls[2] = "invalidate_collection_recommendations"
                /\ Succeeded(r) => CacheCalls(r, "delete") # {})
    /\ [][C29_Step]_vars

\* An add of a manga the collection already has, refused while the key of
\* the collection holds a list.
C29_Witness ==
    \E p \in Procs :
        LET r == req[p]
        IN /\ r.op = "add_manga"
           /\ Returned(r)
           /\ r.outcome.status = "ConflictError"
           /\ redis[KeyOf(r)].present
           /\ r.cache_calls = <<>>

\* A removal that has committed and has not yet deleted the key.
C29_WitnessCommitted ==
    \E p \in Procs :
        LET r == req[p]
        IN /\ r.op = "remove_manga"
           /\ r.pc = "invalidate"
           /\ Committed(r)
           /\ redis[KeyOf(r)].present


\* ------------------------------------------- requests racing a delete
\* No delete of the collection of key k is between its commit and its
\* invalidation, and no recommendation request for k is in flight.
Settled(k) ==
    \A p \in Procs :
        (req[p].op \in {"delete_collection", "recs_collection"} /\ KeyOf(req[p]) = k)
            => Returned(req[p])

C30_WitnessMiss ==
    \E p, o \in Procs :
        /\ req[p].op = "delete_collection"
        /\ Succeeded(req[p])
        /\ req[o].op = "recs_collection"
        /\ KeyOf(req[o]) = KeyOf(req[p])
        /\ Returned(req[o])
        /\ req[o].outdated
        /\ req[o].outcome.status = "TypeError"

====
